---- MODULE Spec2Model ----
(***************************************************************************)
(* State reconciliation and command serialisation of homebridge-seam.      *)
(*                                                                         *)
(* One LockAccessory per configured device holds the mirrored state.       *)
(* Three producers write it: SeamPlatform.pollDevices (polling),           *)
(* WebhookServer.processWebhook (webhook) and                              *)
(* LockAccessory.setLockTargetState / executeLockCommand (command).        *)
(*                                                                         *)
(* JavaScript runs every synchronous stretch and every microtask           *)
(* checkpoint to completion before the next timer or I/O callback, so one  *)
(* action is one such stretch: a handler up to its first await on I/O or a *)
(* timer, or the settlement of a promise together with every continuation  *)
(* that was awaiting it, in registration order.                            *)
(*                                                                         *)
(* WebhookServer also owns the HTTP listener, the generated path and       *)
(* secret and the subscription at the remote API (start, registerWebhook,  *)
(* cleanupWebhook, stop, handleRequest, verifySignature); SeamPlatform     *)
(* owns the polling timer and the poll cycles (startPolling, pollDevices). *)
(*                                                                         *)
(* LockAccessory.updateStateWithPriority is called by platform.js:287 and  *)
(* webhookServer.js:236-279 but no revision of lockAccessory.js in the     *)
(* sources defines it; it is modelled from section 4.1 of the              *)
(* specification on top of LockAccessory.updateState.                      *)
(***************************************************************************)
EXTENDS Integers, Sequences, FiniteSets, TLC

\* ------------------------------------------------------------------------
\* Bounds
\* ------------------------------------------------------------------------
MaxTime == 2          \* the clock Date.now() runs over 1..MaxTime
MaxCallers == 3       \* concurrent HomeKit set requests

\* ------------------------------------------------------------------------
\* Configuration and value domains
\* ------------------------------------------------------------------------
Devices == {"d1", "d2"}
DeviceUnderTest == "d1"               \* the device the environment acts on
NoDevice == "dX"                       \* a device id that is not configured
\* capability lists the remote API may report for a device
CapabilitySets == {{"lock"}, {"lock", "door_sensor"}}
Callers == 1..MaxCallers
Times == 1..MaxTime
InitialBattery == 100
LowBatteryThreshold == 20
BatteryLevels == {15, InitialBattery}

\* JavaScript values that are not timestamps, encoded below every timestamp
NaN == -1
Undefined == -2
Unparsable == -3                       \* an occurred_at string Date cannot parse
Null == 0                              \* commandPromise = null

IsNumber(x) == x >= 0
\* a <= b in JavaScript: false as soon as one side is NaN (or undefined)
Leq(a, b) == IsNumber(a) /\ IsNumber(b) /\ a <= b
\* truthiness of a timestamp-valued expression: undefined, NaN and 0 are falsy
Truthy(x) == x > 0
Max(a, b) == IF a >= b THEN a ELSE b

EventTypes == {"lock.locked", "lock.unlocked", "device.connected",
               "device.disconnected", "device.low_battery",
               "device.battery_status_changed", "device.door_opened",
               "device.door_closed", "device.tampered", "lock.access_denied",
               "other"}

\* what SeamAPI.getLockStatus returns: always the four fields
Statuses == [locked : BOOLEAN, battery_level : BatteryLevels,
             online : {TRUE}, door_open : BOOLEAN]

Has(state, f) == f \in DOMAIN state

VARIABLES
  acc,        \* acc[d]: the LockAccessory of device d
  now,        \* Date.now()
  pc,         \* pc[c]: position of set request c
  req,        \* req[c]: device and desired value of set request c
  waiters,    \* waiters[c]: requests awaiting the promise of c's command, in order
  calls,      \* calls[c]: remote lock/unlock calls issued for request c
  maxSeen,    \* history: greatest numeric lastEventTime device d ever held
  settled,    \* history: some command of device d has completed
  lastOp,     \* history: what the last step was and what it changed
  wh,         \* the WebhookServer and the webhooks part of the configuration
  remote,     \* the webhook subscriptions the remote API holds
  sched,      \* SeamPlatform.pollingInterval, the timers and the poll cycles
  sig         \* one call of WebhookServer.verifySignature

vars == <<acc, now, pc, req, waiters, calls, maxSeen, settled, lastOp,
          wh, remote, sched, sig>>

\* the accessories, the clock and the set requests
recon == <<acc, now, pc, req, waiters, calls, maxSeen, settled>>

\* ------------------------------------------------------------------------
\* LockAccessory
\* ------------------------------------------------------------------------
\* batteryCache.cacheTimeout (one hour), in ticks of the clock: an entry
\* written at t is valid while Date.now() - t < CacheTimeout. The constructor
\* sets lastUpdated to 0, which no value of Date.now() is within the timeout of
CacheTimeout == 1

isBatteryCacheValid_inverted(a, t) ==
  (t - a.batteryCache.lastUpdated) > CacheTimeout

isBatteryCacheValid(a, t) ==
  (t - a.batteryCache.lastUpdated) < CacheTimeout

\* updateBatteryCache(level, isLow) called when Date.now() is t
updateBatteryCache(a, level, isLow, t) ==
  [a EXCEPT !.batteryCache = [level |-> level, isLow |-> isLow,
                              lastUpdated |-> t]]

NewAccessory ==
  [ isLocked            |-> TRUE,
    batteryLevel        |-> InitialBattery,
    isLowBattery        |-> FALSE,
    isDoorOpen          |-> FALSE,
    supportsDoorSensor  |-> FALSE,
    lastEventTime       |-> Undefined,
    isCommandInProgress |-> FALSE,
    commandPromise      |-> Null,
    batteryCache        |-> [level |-> InitialBattery, isLow |-> FALSE,
                             lastUpdated |-> 0] ]

\* LockAccessory.checkDoorSensorSupport(deviceData), run once by
\* setupAccessory; contactService exists exactly when it found support
checkDoorSensorSupport(a, capabilities) ==
  [a EXCEPT !.supportsDoorSensor =
     capabilities \cap {"door_sensor", "contact_sensor", "door_state"} # {}]

\* the observable fields of DeviceState, for frame conditions
StateFields == {"locked", "batteryLevel", "lowBattery", "doorOpen", "lastEventTime"}

Changed(a, b) ==
  {f \in StateFields :
     \/ f = "locked" /\ a.isLocked # b.isLocked
     \/ f = "batteryLevel" /\ a.batteryLevel # b.batteryLevel
     \/ f = "lowBattery" /\ a.isLowBattery # b.isLowBattery
     \/ f = "doorOpen" /\ a.isDoorOpen # b.isDoorOpen
     \/ f = "lastEventTime" /\ a.lastEventTime # b.lastEventTime}

\* LockAccessory.updateState(state)
updateState_noSkip(a, state) ==
  LET a1 == IF Has(state, "locked") /\ state.locked # a.isLocked
            THEN [a EXCEPT !.isLocked = state.locked] ELSE a
      a2 == IF Has(state, "battery_level") /\ state.battery_level # a1.batteryLevel
            THEN updateBatteryCache(
                   [a1 EXCEPT !.batteryLevel = state.battery_level,
                              !.isLowBattery =
                                 state.battery_level < LowBatteryThreshold],
                   state.battery_level,
                   state.battery_level < LowBatteryThreshold, now)
            ELSE a1
      a3 == IF a2.supportsDoorSensor /\ Has(state, "door_open")
               /\ state.door_open # a2.isDoorOpen
            THEN [a2 EXCEPT !.isDoorOpen = state.door_open] ELSE a2
  IN a3

updateState_noGate(a, state) ==
  IF a.isCommandInProgress THEN a
  ELSE
  LET a1 == IF Has(state, "locked") /\ state.locked # a.isLocked
            THEN [a EXCEPT !.isLocked = state.locked] ELSE a
      a2 == IF Has(state, "battery_level") /\ state.battery_level # a1.batteryLevel
            THEN updateBatteryCache(
                   [a1 EXCEPT !.batteryLevel = state.battery_level,
                              !.isLowBattery =
                                 state.battery_level < LowBatteryThreshold],
                   state.battery_level,
                   state.battery_level < LowBatteryThreshold, now)
            ELSE a1
      a3 == IF Has(state, "door_open") /\ state.door_open # a2.isDoorOpen
            THEN [a2 EXCEPT !.isDoorOpen = state.door_open] ELSE a2
  IN a3

updateState(a, state) ==
  IF a.isCommandInProgress THEN a
  ELSE
  LET a1 == IF Has(state, "locked") /\ state.locked # a.isLocked
            THEN [a EXCEPT !.isLocked = state.locked] ELSE a
      a2 == IF Has(state, "battery_level") /\ state.battery_level # a1.batteryLevel
            THEN updateBatteryCache(
                   [a1 EXCEPT !.batteryLevel = state.battery_level,
                              !.isLowBattery =
                                 state.battery_level < LowBatteryThreshold],
                   state.battery_level,
                   state.battery_level < LowBatteryThreshold, now)
            ELSE a1
      a3 == IF a2.supportsDoorSensor /\ Has(state, "door_open")
               /\ state.door_open # a2.isDoorOpen
            THEN [a2 EXCEPT !.isDoorOpen = state.door_open] ELSE a2
  IN a3

\* LockAccessory.updateStateWithPriority(state, source, timestamp), from
\* section 4.1: a polling update whose time is not newer than the watermark is
\* rejected; a webhook update has already been compared with the watermark,
\* and the watermark advanced to it, by processWebhook; an update that
\* updateState skips does not advance the watermark.
updateStateWithPriority(a, state, source, timestamp) ==
  IF source = "polling" /\ Leq(timestamp, a.lastEventTime) THEN a
  ELSE LET b == updateState(a, state)
       IN IF a.isCommandInProgress THEN b
          ELSE [b EXCEPT !.lastEventTime = timestamp]

\* the fields for which updateState(state) pushes the new value to the
\* HomeKit characteristics (updateValue): LockCurrentState and
\* LockTargetState for locked, BatteryLevel and StatusLowBattery for
\* batteryLevel, ContactSensorState for doorOpen
Pushed_whenPresent(a, state) ==
  IF a.isCommandInProgress THEN {}
  ELSE {f \in {"locked", "batteryLevel", "doorOpen"} :
          \/ f = "locked" /\ Has(state, "locked")
          \/ f = "batteryLevel" /\ Has(state, "battery_level")
          \/ f = "doorOpen" /\ a.supportsDoorSensor /\ Has(state, "door_open")}

Pushed(a, state) ==
  IF a.isCommandInProgress THEN {}
  ELSE {f \in {"locked", "batteryLevel", "doorOpen"} :
          \/ f = "locked" /\ Has(state, "locked") /\ state.locked # a.isLocked
          \/ f = "batteryLevel" /\ Has(state, "battery_level")
               /\ state.battery_level # a.batteryLevel
          \/ f = "doorOpen" /\ a.supportsDoorSensor /\ Has(state, "door_open")
               /\ state.door_open # a.isDoorOpen}

\* the pushes of updateStateWithPriority(state, source, timestamp): those of
\* updateState when the update is not rejected
PushedWithPriority(a, state, source, timestamp) ==
  IF source = "polling" /\ Leq(timestamp, a.lastEventTime) THEN {}
  ELSE Pushed(a, state)

\* ------------------------------------------------------------------------
\* History
\* ------------------------------------------------------------------------
\* the fields of DeviceState for which the update carries a value that
\* differs from the one the accessory holds
Carried(a, state) ==
  {f \in StateFields :
     \/ f = "locked" /\ Has(state, "locked") /\ state.locked # a.isLocked
     \/ f = "batteryLevel" /\ Has(state, "battery_level")
          /\ state.battery_level # a.batteryLevel
     \/ f = "doorOpen" /\ Has(state, "door_open") /\ state.door_open # a.isDoorOpen}

NoOp == [kind |-> "init", dev |-> NoDevice, caller |-> 0, stale |-> FALSE,
         inFlight |-> FALSE, changed |-> {}, carried |-> {}, returned |-> {},
         resumed |-> {}, calls |-> 0, event |-> "", code |-> 0,
         verdict |-> "", routed |-> FALSE, omitted |-> {}, adopted |-> FALSE,
         failed |-> FALSE, method |-> "", url |-> 0, notified |-> {},
         reported |-> Undefined, error |-> "", raw |-> Undefined]

Seen(m, a) == IF IsNumber(a.lastEventTime) THEN Max(m, a.lastEventTime) ELSE m

\* a polling or webhook update of device d stamped time took a to b
UpdateOp(kind, d, time, state, a, b) ==
  [NoOp EXCEPT !.kind = kind, !.dev = d,
               !.stale = Leq(time, maxSeen[d]),
               !.inFlight = a.isCommandInProgress,
               !.changed = Changed(a, b),
               !.carried = Carried(a, state)]

\* a step of set request c on device d took a to b
CmdOp(kind, d, c, a, b) ==
  [NoOp EXCEPT !.kind = kind, !.dev = d, !.caller = c,
               !.inFlight = a.isCommandInProgress,
               !.changed = Changed(a, b)]

\* the platform after discoverDevices set up the accessories
InitAccessories ==
  /\ \E caps \in CapabilitySets :
       acc = [d \in Devices |->
                checkDoorSensorSupport(NewAccessory,
                                       IF d = DeviceUnderTest THEN caps ELSE {"lock"})]
  /\ now = 1
  /\ pc = [c \in Callers |-> "idle"]
  /\ req = [c \in Callers |-> [dev |-> NoDevice, shouldLock |-> FALSE]]
  /\ waiters = [c \in Callers |-> <<>>]
  /\ calls = [c \in Callers |-> 0]
  /\ maxSeen = [d \in Devices |-> 0]
  /\ settled = [d \in Devices |-> FALSE]
  /\ lastOp = NoOp

\* ------------------------------------------------------------------------
\* Clock
\* ------------------------------------------------------------------------
Tick ==
  /\ now < MaxTime
  /\ now' = now + 1
  /\ lastOp' = [NoOp EXCEPT !.kind = "tick"]
  /\ UNCHANGED <<acc, pc, req, waiters, calls, maxSeen, settled>>
  /\ UNCHANGED <<wh, remote, sched, sig>>

\* ------------------------------------------------------------------------
\* SeamPlatform.pollDevices: the loop body for one accessory whose status
\* query succeeded
\* ------------------------------------------------------------------------
PollDevice(d, status) ==
  LET b == updateStateWithPriority(acc[d], status, "polling", now)
  IN /\ acc' = [acc EXCEPT ![d] = b]
     /\ maxSeen' = [maxSeen EXCEPT ![d] = Seen(@, b)]
     /\ lastOp' = [UpdateOp("poll", d, now, status, acc[d], b)
                    EXCEPT !.notified =
                             PushedWithPriority(acc[d], status, "polling", now)]
     /\ UNCHANGED <<now, pc, req, waiters, calls, settled>>
     /\ UNCHANGED <<wh, remote, sched, sig>>

\* ------------------------------------------------------------------------
\* WebhookServer.processWebhook
\* ------------------------------------------------------------------------
\* new Date(occurred_at).getTime(): NaN for a string Date cannot parse
getTime(occurred_at) == IF occurred_at = Unparsable THEN NaN ELSE occurred_at

\* payload.occurred_at ? new Date(payload.occurred_at).getTime() : Date.now()
EventTime(occurred_at, clock) ==
  IF occurred_at = Undefined THEN clock ELSE getTime(occurred_at)

OccurredAts == {Undefined, Unparsable} \cup Times
PayloadBatteries == {Undefined, 0} \cup BatteryLevels
DoorEvents == {"device.door_opened", "device.door_closed"}
\* the cases of the switch that only log, and the default case
SilentEvents == {"device.tampered", "lock.access_denied", "other"}
NoEventType == "none"                  \* payload without event_type

\* the switch on eventType: the fields handed to updateStateWithPriority,
\* or NoFields when the case makes no call
NoFields == <<>>

EventFields(a, eventType, battery_level) ==
  CASE eventType = "lock.locked" -> [locked |-> TRUE]
    [] eventType = "lock.unlocked" -> [locked |-> FALSE]
    [] eventType = "device.connected" -> [online |-> TRUE]
    [] eventType = "device.disconnected" -> [online |-> FALSE]
    [] eventType \in {"device.low_battery", "device.battery_status_changed"} ->
         IF Truthy(battery_level) THEN [battery_level |-> battery_level]
         ELSE NoFields
    [] eventType = "device.door_opened" ->
         IF a.supportsDoorSensor THEN [door_open |-> TRUE] ELSE NoFields
    [] eventType = "device.door_closed" ->
         IF a.supportsDoorSensor THEN [door_open |-> FALSE] ELSE NoFields
    [] OTHER -> NoFields

ApplyEvent(a, eventType, eventTime, battery_level) ==
  LET fields == EventFields(a, eventType, battery_level)
  IN IF fields = NoFields THEN a
     ELSE updateStateWithPriority(a, fields, "webhook", eventTime)

\* the part of processWebhook that runs once the accessory was found
processWebhook_strictGuard(a, eventType, eventTime, battery_level) ==
  IF Leq(eventTime, a.lastEventTime) \/ ~IsNumber(eventTime)
  THEN a
  ELSE ApplyEvent([a EXCEPT !.lastEventTime = eventTime],
                  eventType, eventTime, battery_level)

processWebhook_stampApplied(a, eventType, eventTime, battery_level) ==
  IF Truthy(a.lastEventTime) /\ Leq(eventTime, a.lastEventTime)
  THEN a
  ELSE IF eventType \in SilentEvents THEN a
  ELSE ApplyEvent([a EXCEPT !.lastEventTime = eventTime],
                  eventType, eventTime, battery_level)

processWebhook(a, eventType, eventTime, battery_level) ==
  IF Truthy(a.lastEventTime) /\ Leq(eventTime, a.lastEventTime)
  THEN a
  ELSE ApplyEvent([a EXCEPT !.lastEventTime = eventTime],
                  eventType, eventTime, battery_level)

\* the pushes of processWebhook
WebhookPushed(a, eventType, eventTime, battery_level) ==
  LET fields == EventFields(a, eventType, battery_level)
  IN IF Truthy(a.lastEventTime) /\ Leq(eventTime, a.lastEventTime) THEN {}
     ELSE IF fields = NoFields THEN {}
     ELSE PushedWithPriority([a EXCEPT !.lastEventTime = eventTime],
                             fields, "webhook", eventTime)

\* a POST whose body parsed: handleRequest calls processWebhook(payload)
Webhook(deviceId, eventType, occurred_at, battery_level) ==
  LET eventTime == EventTime(occurred_at, now)
      known == eventType # NoEventType /\ deviceId \in Devices
      a == acc[deviceId]
      b == processWebhook(a, eventType, eventTime, battery_level)
  IN /\ acc' = IF known THEN [acc EXCEPT ![deviceId] = b] ELSE acc
     /\ maxSeen' = IF known THEN [maxSeen EXCEPT ![deviceId] = Seen(@, b)]
                   ELSE maxSeen
     /\ lastOp' = IF known
                  THEN [UpdateOp("webhook", deviceId, eventTime,
                                 EventFields(a, eventType, battery_level), a, b)
                          EXCEPT !.event =
                            IF eventType \in DoorEvents \cup SilentEvents
                            THEN eventType ELSE "",
                                 !.notified =
                            WebhookPushed(a, eventType, eventTime,
                                          battery_level)]
                  ELSE [NoOp EXCEPT !.kind = "webhookDropped"]
     /\ UNCHANGED <<now, pc, req, waiters, calls, settled>>
     /\ UNCHANGED <<wh, remote, sched, sig>>

\* ------------------------------------------------------------------------
\* LockAccessory.setLockTargetState / executeLockCommand
\* ------------------------------------------------------------------------
Idle == [dev |-> NoDevice, shouldLock |-> FALSE]

\* requests are anonymous: a new one takes the lowest free slot
FreeSlot(c) == pc[c] = "idle" /\ \A k \in Callers : pc[k] = "idle" => c <= k

\* remote lock/unlock calls of device d issued and not yet completed
\* (the settle pause included)
Outstanding(d) == {c \in Callers : pc[c] \in {"calling", "settling"} /\ req[c].dev = d}
Waiting(d) == {c \in Callers : pc[c] = "waiting" /\ req[c].dev = d}
Active(d) == {c \in Callers : pc[c] # "idle" /\ req[c].dev = d}

\* "Start new command": this.isCommandInProgress = true;
\* this.commandPromise = this.executeLockCommand(shouldLock)
BeginCommand(a, c) ==
  [a EXCEPT !.isCommandInProgress = TRUE, !.commandPromise = c]

\* the finally block of setLockTargetState
Release_keepFlag(a) == [a EXCEPT !.commandPromise = Null]

Release(a) == [a EXCEPT !.isCommandInProgress = FALSE, !.commandPromise = Null]

\* executeLockCommand after Promise.race resolved: "Update state"
CommandResult_stamped(a, shouldLock, t) ==
  [a EXCEPT !.isLocked = shouldLock, !.lastEventTime = t]

CommandResult(a, shouldLock, t) == [a EXCEPT !.isLocked = shouldLock]

\* the continuations of the requests that awaited a resolved promise, in
\* registration order: each one starts its own command
RECURSIVE Resume(_, _)
Resume(a, ws) ==
  IF ws = <<>> THEN a ELSE Resume(BeginCommand(a, Head(ws)), Tail(ws))

Range(ws) == {ws[i] : i \in 1..Len(ws)}

\* the waiters that go on to "Start new command" once the promise they
\* awaited resolved: all of them, whatever the state now is
Starters_reevaluate(a, ws) == {w \in Range(ws) : req[w].shouldLock # a.isLocked}

Starters(a, ws) == Range(ws)

\* HomeKit sets LockTargetState: setLockTargetState(value) up to its first await
SetLockTargetState_anyDevice(c, d, shouldLock) ==
  /\ FreeSlot(c)
  /\ req' = [req EXCEPT ![c] = [dev |-> d, shouldLock |-> shouldLock]]
  /\ IF \E e \in Devices : acc[e].isCommandInProgress
     THEN LET e == CHOOSE e \in Devices : acc[e].isCommandInProgress
          IN /\ pc' = [pc EXCEPT ![c] = "waiting"]
             /\ waiters' = [waiters EXCEPT ![acc[e].commandPromise] = Append(@, c)]
             /\ UNCHANGED <<acc, calls>>
     ELSE /\ pc' = [pc EXCEPT ![c] = "calling"]
          /\ acc' = [acc EXCEPT ![d] = BeginCommand(@, c)]
          /\ calls' = [calls EXCEPT ![c] = 1]
          /\ UNCHANGED waiters
  /\ lastOp' = CmdOp("request", d, c, acc[d], acc'[d])
  /\ UNCHANGED <<now, maxSeen, settled>>
  /\ UNCHANGED <<wh, remote, sched, sig>>

SetLockTargetState_noWait(c, d, shouldLock) ==
  /\ FreeSlot(c)
  /\ req' = [req EXCEPT ![c] = [dev |-> d, shouldLock |-> shouldLock]]
  /\ pc' = [pc EXCEPT ![c] = "calling"]
  /\ acc' = [acc EXCEPT ![d] = BeginCommand(@, c)]
  /\ calls' = [calls EXCEPT ![c] = 1]
  /\ lastOp' = CmdOp("request", d, c, acc[d], acc'[d])
  /\ UNCHANGED <<now, maxSeen, settled, waiters>>
  /\ UNCHANGED <<wh, remote, sched, sig>>

SetLockTargetState(c, d, shouldLock) ==
  /\ FreeSlot(c)
  /\ req' = [req EXCEPT ![c] = [dev |-> d, shouldLock |-> shouldLock]]
  /\ IF acc[d].isCommandInProgress
     THEN \* await this.commandPromise
          /\ pc' = [pc EXCEPT ![c] = "waiting"]
          /\ waiters' = [waiters EXCEPT ![acc[d].commandPromise] = Append(@, c)]
          /\ UNCHANGED <<acc, calls>>
     ELSE /\ pc' = [pc EXCEPT ![c] = "calling"]
          /\ acc' = [acc EXCEPT ![d] = BeginCommand(@, c)]
          /\ calls' = [calls EXCEPT ![c] = 1]
          /\ UNCHANGED waiters
  /\ lastOp' = CmdOp("request", d, c, acc[d], acc'[d])
  /\ UNCHANGED <<now, maxSeen, settled>>
  /\ UNCHANGED <<wh, remote, sched, sig>>

\* the remote call answered before the 15 s timer: state set, 2 s pause begins
CommandSuccess(c) ==
  /\ pc[c] = "calling"
  /\ LET d == req[c].dev
         b == CommandResult(acc[d], req[c].shouldLock, now)
     IN /\ acc' = [acc EXCEPT ![d] = b]
        /\ maxSeen' = [maxSeen EXCEPT ![d] = Seen(@, b)]
        /\ lastOp' = CmdOp("commandSuccess", d, c, acc[d], b)
  /\ pc' = [pc EXCEPT ![c] = "settling"]
  /\ UNCHANGED <<now, req, waiters, calls, settled>>
  /\ UNCHANGED <<wh, remote, sched, sig>>

\* the promise of c's command settles: c's finally block runs, then the
\* continuation of every request that awaited the promise
Settle(c, ok) ==
  LET d == req[c].dev
      ws == waiters[c]
      released == Release(acc[d])
      starters == IF ok THEN Starters(released, ws) ELSE {}
      b == IF ok THEN Resume(released, SelectSeq(ws, LAMBDA w : w \in starters))
           ELSE released
      gone == ({c} \cup Range(ws)) \ starters
  IN /\ acc' = [acc EXCEPT ![d] = b]
     /\ pc' = [k \in Callers |->
                 IF k \in gone THEN "idle"
                 ELSE IF k \in starters THEN "calling" ELSE pc[k]]
     /\ req' = [k \in Callers |-> IF k \in gone THEN Idle ELSE req[k]]
     /\ calls' = [k \in Callers |->
                    IF k \in gone THEN 0
                    ELSE IF k \in starters THEN calls[k] + 1 ELSE calls[k]]
     /\ waiters' = [waiters EXCEPT ![c] = <<>>]
     /\ settled' = [settled EXCEPT ![d] = TRUE]
     /\ lastOp' = [CmdOp(IF ok THEN "commandDone" ELSE "commandFailed",
                         d, c, acc[d], b)
                    EXCEPT !.returned =
                             {<<k, IF ok THEN "ok" ELSE "CommunicationFailure">> :
                                k \in gone},
                           !.resumed = Range(ws),
                           !.calls = calls[c]]
     /\ UNCHANGED <<now, maxSeen>>
     /\ UNCHANGED <<wh, remote, sched, sig>>

\* the remote call rejected, or the 15 s timer won Promise.race
CommandFail_noTimer(c) ==
  /\ pc[c] = "calling"
  /\ FALSE
  /\ UNCHANGED vars

CommandFail(c) ==
  /\ pc[c] = "calling"
  /\ Settle(c, FALSE)

\* the 2 s pause after a successful command elapsed
SettlePauseDone(c) ==
  /\ pc[c] = "settling"
  /\ Settle(c, TRUE)

\* ------------------------------------------------------------------------
\* LockAccessory.getBatteryLevel / getStatusLowBattery: a HomeKit read of the
\* battery, answered by getBatteryLevelFromAPI from the cache or from the
\* remote API
\* ------------------------------------------------------------------------
\* this.batteryLevel = batteryData.level; this.isLowBattery = batteryData.isLow
\* with the cache entry as batteryData; read c returns the level
ReturnCached(c, d, kind, issued) ==
  LET a == acc[d]
      b == [a EXCEPT !.batteryLevel = a.batteryCache.level,
                     !.isLowBattery = a.batteryCache.isLow]
  IN /\ acc' = [acc EXCEPT ![d] = b]
     /\ lastOp' = [CmdOp(kind, d, c, a, b)
                    EXCEPT !.returned = {<<c, a.batteryCache.level>>},
                           !.calls = issued]

\* the read up to its first await: the cache is consulted, and
\* seamAPI.getLockStatus is called when the entry has expired
GetBatteryLevel(c, d) ==
  /\ FreeSlot(c)
  /\ IF isBatteryCacheValid(acc[d], now)
     THEN /\ ReturnCached(c, d, "batteryRead", 0)
          /\ UNCHANGED <<pc, req, calls>>
     ELSE /\ pc' = [pc EXCEPT ![c] = "fetching"]
          /\ req' = [req EXCEPT ![c] = [dev |-> d, shouldLock |-> FALSE]]
          /\ calls' = [calls EXCEPT ![c] = 1]
          /\ lastOp' = [CmdOp("batteryRead", d, c, acc[d], acc[d])
                         EXCEPT !.calls = 1]
          /\ UNCHANGED acc
  /\ UNCHANGED <<now, waiters, maxSeen, settled>>
  /\ UNCHANGED <<wh, remote, sched, sig>>

\* getLockStatus resolved: level = status.battery_level || 100, the cache is
\* rewritten and the read returns the level
BatteryAnswer(c, battery_level) ==
  /\ pc[c] = "fetching"
  /\ LET d == req[c].dev
         a == acc[d]
         level == IF Truthy(battery_level) THEN battery_level ELSE InitialBattery
         isLow == level < LowBatteryThreshold
         b == [updateBatteryCache(a, level, isLow, now)
                 EXCEPT !.batteryLevel = level, !.isLowBattery = isLow]
     IN /\ acc' = [acc EXCEPT ![d] = b]
        /\ lastOp' = [CmdOp("batteryRefreshed", d, c, a, b)
                       EXCEPT !.returned = {<<c, level>>},
                              !.calls = calls[c],
                              !.reported = battery_level]
  /\ pc' = [pc EXCEPT ![c] = "idle"]
  /\ req' = [req EXCEPT ![c] = Idle]
  /\ calls' = [calls EXCEPT ![c] = 0]
  /\ UNCHANGED <<now, waiters, maxSeen, settled>>
  /\ UNCHANGED <<wh, remote, sched, sig>>

BatteryFail_stamped(c) ==
  /\ pc[c] = "fetching"
  /\ LET d == req[c].dev
         a == acc[d]
         b == updateBatteryCache(a, a.batteryCache.level, a.batteryCache.isLow, now)
     IN /\ acc' = [acc EXCEPT ![d] = b]
        /\ lastOp' = [CmdOp("batteryFallback", d, c, a, b)
                       EXCEPT !.returned = {<<c, a.batteryCache.level>>},
                              !.calls = calls[c]]
  /\ pc' = [pc EXCEPT ![c] = "idle"]
  /\ req' = [req EXCEPT ![c] = Idle]
  /\ calls' = [calls EXCEPT ![c] = 0]
  /\ UNCHANGED <<now, waiters, maxSeen, settled>>
  /\ UNCHANGED <<wh, remote, sched, sig>>

\* getLockStatus rejected: the catch block returns the entry, expired or not
BatteryFail(c) ==
  /\ pc[c] = "fetching"
  /\ ReturnCached(c, req[c].dev, "batteryFallback", calls[c])
  /\ pc' = [pc EXCEPT ![c] = "idle"]
  /\ req' = [req EXCEPT ![c] = Idle]
  /\ calls' = [calls EXCEPT ![c] = 0]
  /\ UNCHANGED <<now, waiters, maxSeen, settled>>
  /\ UNCHANGED <<wh, remote, sched, sig>>

\* ------------------------------------------------------------------------
\* WebhookServer: start, registerWebhook, cleanupWebhook, stop
\*
\* One call of start or stop runs at a time; each await on the HTTP listener
\* or on the remote API ends a step, and a call of the remote API either
\* answers or throws.
\* ------------------------------------------------------------------------
MaxStarts == 2                         \* calls of start that generate values

NoUrl == ""                            \* config.url not set
BaseUrl == "https://hb.example"
PrefixedUrl == "https://hb.example.org"   \* another origin, its text starts with BaseUrl
OtherUrl == "https://other.example"
NoValue == 0                           \* null or '' for a path or a secret
SavedValue == 1                        \* a path or secret saved by an earlier run
NoWebhookUrl == [origin |-> NoUrl, path |-> NoValue]

\* webhook.url.startsWith(this.config.url), with the truthiness tests before it
StartsWith(url, base) ==
  /\ url # NoWebhookUrl
  /\ base # NoUrl
  /\ \/ url.origin = base
     \/ url.origin = PrefixedUrl /\ base = BaseUrl

\* crypto.randomUUID() and crypto.randomBytes(32): the n-th value drawn is one
\* that no configuration holds and no earlier draw returned
generatePath(n) == SavedValue + n
generateSecret(n) == SavedValue + n

WebhookConfigs ==
  [enabled : BOOLEAN, url : {NoUrl, BaseUrl}, path : {NoValue, SavedValue},
   secret : {NoValue, SavedValue}]

\* new WebhookServer(platform, config); the fields after webhookId are
\* the position of the running start or stop, the position of a stop that
\* runs beside start, and history
NewWebhookServer(config) ==
  [ enabled    |-> config.enabled,
    url        |-> config.url,
    cfgPath    |-> config.path,
    cfgSecret  |-> config.secret,
    server     |-> FALSE,
    path       |-> config.path,
    secret     |-> config.secret,
    webhookUrl |-> NoWebhookUrl,
    webhookId  |-> 0,
    op         |-> "none",
    pc         |-> "idle",
    todo       |-> {},
    stopping   |-> "idle",
    stopTodo   |-> {},
    generated  |-> 0,
    pastPaths   |-> {config.path} \ {NoValue},
    pastSecrets |-> {config.secret} \ {NoValue},
    before     |-> {},
    clean      |-> TRUE,
    foreignDeleted |-> FALSE ]

\* getSupportedWebhookEvents(): baseEvents, and the door events when some
\* accessory of the platform has supportsDoorSensor === true
BaseEvents == {"device.connected", "device.disconnected", "lock.locked",
               "lock.unlocked", "device.low_battery",
               "device.battery_status_changed"}

getSupportedWebhookEvents_allEight == BaseEvents \cup DoorEvents

getSupportedWebhookEvents ==
  IF \E d \in Devices : acc[d].supportsDoorSensor
  THEN BaseEvents \cup DoorEvents
  ELSE BaseEvents

\* subscriptions left at the remote API by earlier runs or by other clients;
\* the second one targets the URL the first start will compute
ResidualSubs ==
  { [id |-> 1, url |-> [origin |-> BaseUrl, path |-> SavedValue],
     events |-> BaseEvents],
    [id |-> 2, url |-> [origin |-> BaseUrl, path |-> generatePath(1)],
     events |-> BaseEvents],
    [id |-> 3, url |-> [origin |-> PrefixedUrl, path |-> SavedValue],
     events |-> BaseEvents],
    [id |-> 4, url |-> [origin |-> OtherUrl, path |-> SavedValue],
     events |-> BaseEvents] }

\* the subscriptions cleanupWebhook selects for deletion
Matching(subs, base) == {s \in subs : StartsWith(s.url, base)}

MinId(S) == CHOOSE s \in S : \A t \in S : s.id <= t.id

\* the server accepts connections
Listening == wh.server /\ wh.pc \notin {"listen", "close"}

HookOp(kind) == [NoOp EXCEPT !.kind = kind]

\* this.platform.saveWebhookConfig(path, secret)
saveWebhookConfig(w, path, secret) ==
  [w EXCEPT !.cfgPath = path, !.cfgSecret = secret]

\* what follows cleanupWebhook in its caller
AfterCleanup_keepId(w) ==
  IF w.op = "start" /\ w.enabled
  THEN [w EXCEPT !.pc = "create"]
  ELSE [saveWebhookConfig(w, NoValue, NoValue)
          EXCEPT !.path = NoValue, !.secret = NoValue,
                 !.op = "none", !.pc = "idle"]

AfterCleanup(w) ==
  IF w.op = "start" /\ w.enabled
  THEN \* registerWebhook: await createWebhook(this.webhookUrl, eventTypes)
       [w EXCEPT !.pc = "create"]
  ELSE IF w.op = "start"
  THEN \* start with webhooks disabled: clear config and local values
       [saveWebhookConfig(w, NoValue, NoValue)
          EXCEPT !.path = NoValue, !.secret = NoValue,
                 !.op = "none", !.pc = "idle"]
  ELSE \* stop: clear config and local values
       [saveWebhookConfig(w, NoValue, NoValue)
          EXCEPT !.path = NoValue, !.secret = NoValue, !.webhookId = 0,
                 !.op = "none", !.pc = "idle"]

\* start() up to its first await
Start_reuseSaved ==
  /\ wh.op = "none" /\ ~wh.server /\ wh.generated < MaxStarts
  /\ IF ~wh.enabled
     THEN wh' = [wh EXCEPT !.op = "start", !.pc = "sweep", !.clean = TRUE]
     ELSE IF wh.url = NoUrl
     THEN wh' = wh
     ELSE LET n == wh.generated + 1
              path == IF wh.path # NoValue THEN wh.path ELSE generatePath(n)
              secret == IF wh.secret # NoValue THEN wh.secret ELSE generateSecret(n)
          IN wh' = [wh EXCEPT !.generated = n,
                              !.path = path,
                              !.secret = secret,
                              !.webhookUrl = [origin |-> wh.url, path |-> path],
                              !.server = TRUE,
                              !.op = "start", !.pc = "listen", !.clean = TRUE]
  /\ lastOp' = HookOp("start")
  /\ UNCHANGED <<recon, remote, sched, sig>>

Start_noUrlCheck ==
  /\ wh.op = "none" /\ ~wh.server /\ wh.generated < MaxStarts
  /\ IF ~wh.enabled
     THEN wh' = [wh EXCEPT !.op = "start", !.pc = "sweep", !.clean = TRUE]
     ELSE LET n == wh.generated + 1
          IN wh' = [wh EXCEPT !.generated = n,
                              !.path = generatePath(n),
                              !.secret = generateSecret(n),
                              !.webhookUrl = [origin |-> wh.url,
                                              path |-> generatePath(n)],
                              !.server = TRUE,
                              !.op = "start", !.pc = "listen", !.clean = TRUE]
  /\ lastOp' = HookOp("start")
  /\ UNCHANGED <<recon, remote, sched, sig>>

Start ==
  /\ wh.op = "none" /\ ~wh.server /\ wh.generated < MaxStarts
  /\ IF ~wh.enabled
     THEN \* await this.cleanupWebhook(): await listWebhooks()
          wh' = [wh EXCEPT !.op = "start", !.pc = "sweep", !.clean = TRUE]
     ELSE IF wh.url = NoUrl
     THEN wh' = wh
     ELSE LET n == wh.generated + 1
          IN wh' = [wh EXCEPT !.generated = n,
                              !.path = generatePath(n),
                              !.secret = generateSecret(n),
                              !.webhookUrl = [origin |-> wh.url,
                                              path |-> generatePath(n)],
                              !.server = TRUE,
                              !.op = "start", !.pc = "listen", !.clean = TRUE]
  /\ lastOp' = HookOp("start")
  /\ UNCHANGED <<recon, remote, sched, sig>>

\* the listen callback: start goes on to registerWebhook, which awaits
\* listWebhooks()
Listen ==
  /\ wh.pc = "listen"
  /\ wh' = [wh EXCEPT !.pc = "register", !.before = remote.subs]
  /\ lastOp' = HookOp("listening")
  /\ UNCHANGED <<recon, remote, sched, sig>>

\* registerWebhook after listWebhooks() answered (ok) or threw
RegisterListed_noAdopt(ok) ==
  /\ wh.pc = "register"
  /\ IF ~ok
     THEN /\ wh' = [wh EXCEPT !.op = "none", !.pc = "idle", !.clean = FALSE]
          /\ lastOp' = [HookOp("registered") EXCEPT !.failed = TRUE]
     ELSE /\ wh' = [wh EXCEPT !.pc = "sweep"]
          /\ lastOp' = HookOp("registerListed")
  /\ UNCHANGED <<recon, remote, sched, sig>>

RegisterListed(ok) ==
  /\ wh.pc = "register"
  /\ IF ~ok
     THEN \* catch: 'Failed to register webhook'
          /\ wh' = [wh EXCEPT !.op = "none", !.pc = "idle", !.clean = FALSE]
          /\ lastOp' = [HookOp("registered") EXCEPT !.failed = TRUE]
     ELSE IF \E s \in remote.subs : s.url = wh.webhookUrl
     THEN \* existingWebhooks.find(wh => wh.url === this.webhookUrl)
          /\ \E s \in remote.subs :
               /\ s.url = wh.webhookUrl
               /\ wh' = [wh EXCEPT !.webhookId = s.id,
                                   !.op = "none", !.pc = "idle"]
          /\ lastOp' = [HookOp("registered") EXCEPT !.adopted = TRUE]
     ELSE \* await this.cleanupWebhook(): await listWebhooks()
          /\ wh' = [wh EXCEPT !.pc = "sweep"]
          /\ lastOp' = HookOp("registerListed")
  /\ UNCHANGED <<recon, remote, sched, sig>>

\* the kind of step that ends cleanupWebhook
CleanupDone(w) ==
  IF w.op = "start" /\ w.enabled THEN "cleaned"
  ELSE IF w.op = "start" THEN "startedDisabled" ELSE "stopped"

\* cleanupWebhook after listWebhooks() answered (ok) or threw
Swept(ok) ==
  /\ wh.pc = "sweep"
  /\ LET todo == IF ok THEN Matching(remote.subs, wh.url) ELSE {}
         w == [wh EXCEPT !.todo = todo, !.clean = @ /\ ok]
     IN IF todo = {}
        THEN /\ wh' = AfterCleanup(w)
             /\ lastOp' = HookOp(CleanupDone(wh))
        ELSE \* await deleteWebhook(webhook.webhook_id)
             /\ wh' = [w EXCEPT !.pc = "delete"]
             /\ lastOp' = HookOp("swept")
  /\ UNCHANGED <<recon, remote, sched, sig>>

\* cleanupWebhook after deleteWebhook() answered (ok) or threw
Deleted(ok) ==
  /\ wh.pc = "delete"
  /\ LET s == MinId(wh.todo)
         todo == wh.todo \ {s}
         w == [wh EXCEPT !.todo = todo, !.clean = @ /\ ok,
                         !.foreignDeleted =
                            @ \/ (ok /\ ~StartsWith(s.url, wh.url))]
     IN /\ remote' = IF ok
                     THEN [remote EXCEPT !.subs = {t \in @ : t.id # s.id}]
                     ELSE remote
        /\ IF todo = {}
           THEN /\ wh' = AfterCleanup(w)
                /\ lastOp' = HookOp(CleanupDone(wh))
           ELSE /\ wh' = w
                /\ lastOp' = HookOp("deleted")
  /\ UNCHANGED <<recon, sched, sig>>

\* registerWebhook after createWebhook() answered (ok) or threw
Created_rethrow(ok) ==
  /\ wh.pc = "create"
  /\ IF ok
     THEN LET id == remote.issued + 1
          IN /\ remote' = [subs |-> remote.subs \cup
                                      {[id |-> id, url |-> wh.webhookUrl,
                                        events |-> getSupportedWebhookEvents]},
                           issued |-> id]
             /\ wh' = [saveWebhookConfig(wh, wh.path, wh.secret)
                         EXCEPT !.webhookId = id, !.op = "none", !.pc = "idle"]
             /\ lastOp' = HookOp("registered")
     ELSE /\ remote' = remote
          /\ wh' = [wh EXCEPT !.pc = "thrown", !.clean = FALSE]
          /\ lastOp' = [HookOp("registered") EXCEPT !.failed = TRUE]
  /\ UNCHANGED <<recon, sched, sig>>

Created(ok) ==
  /\ wh.pc = "create"
  /\ IF ok
     THEN LET id == remote.issued + 1
          IN /\ remote' = [subs |-> remote.subs \cup
                                      {[id |-> id, url |-> wh.webhookUrl,
                                        events |-> getSupportedWebhookEvents]},
                           issued |-> id]
             /\ wh' = [saveWebhookConfig(wh, wh.path, wh.secret)
                         EXCEPT !.webhookId = id, !.op = "none", !.pc = "idle"]
             /\ lastOp' = HookOp("registered")
     ELSE /\ remote' = remote
          /\ wh' = [wh EXCEPT !.op = "none", !.pc = "idle", !.clean = FALSE]
          /\ lastOp' = [HookOp("registered") EXCEPT !.failed = TRUE]
  /\ UNCHANGED <<recon, sched, sig>>

\* createWebhook() threw 'Invalid event types': the catch of registerWebhook
\* logs the message, as for every other error
CreateRejected ==
  /\ wh.pc = "create"
  /\ wh' = [wh EXCEPT !.op = "none", !.pc = "idle", !.clean = FALSE]
  /\ lastOp' = [HookOp("registered") EXCEPT !.failed = TRUE,
                                            !.error = "Invalid event types"]
  /\ UNCHANGED <<recon, remote, sched, sig>>

\* stop() up to its first await
Stop ==
  /\ wh.op = "none"
  /\ wh' = [wh EXCEPT !.op = "stop", !.clean = TRUE,
                      !.pc = IF wh.server THEN "close" ELSE "sweep"]
  /\ lastOp' = HookOp("stop")
  /\ UNCHANGED <<recon, remote, sched, sig>>

\* the close callback: this.server = null, then cleanupWebhook awaits
\* listWebhooks()
Closed ==
  /\ wh.pc = "close"
  /\ wh' = [wh EXCEPT !.server = FALSE, !.pc = "sweep",
                      !.pastPaths = @ \cup {wh.path},
                      !.pastSecrets = @ \cup {wh.secret}]
  /\ lastOp' = HookOp("closed")
  /\ UNCHANGED <<recon, remote, sched, sig>>

\* stop() called while start() awaits a remote call of registerWebhook (the
\* listen callback runs before any event can deliver the shutdown):
\* this.server is set, and stop awaits the close callback
StopRacing ==
  /\ wh.op = "start" /\ wh.pc \in {"register", "sweep", "delete", "create"}
  /\ wh.server /\ wh.stopping = "idle"
  /\ wh' = [wh EXCEPT !.stopping = "close"]
  /\ lastOp' = HookOp("stop")
  /\ UNCHANGED <<recon, remote, sched, sig>>

\* the close callback of that stop: this.server = null, then cleanupWebhook
\* awaits listWebhooks()
StopRacingClosed ==
  /\ wh.stopping = "close"
  /\ wh' = [wh EXCEPT !.server = FALSE, !.stopping = "sweep",
                      !.pastPaths = @ \cup {wh.path},
                      !.pastSecrets = @ \cup {wh.secret}]
  /\ lastOp' = HookOp("closed")
  /\ UNCHANGED <<recon, remote, sched, sig>>

\* what follows cleanupWebhook in that stop: the configuration and the
\* local values are cleared, whatever start is waiting for
StopRacingReturned(w) ==
  [AfterCleanup([w EXCEPT !.op = "stop"])
     EXCEPT !.op = w.op, !.pc = w.pc, !.stopping = "done"]

\* cleanupWebhook of that stop after listWebhooks() answered (ok) or threw
StopRacingSwept(ok) ==
  /\ wh.stopping = "sweep"
  /\ LET todo == IF ok THEN Matching(remote.subs, wh.url) ELSE {}
         w == [wh EXCEPT !.stopTodo = todo, !.clean = @ /\ ok]
     IN IF todo = {}
        THEN /\ wh' = StopRacingReturned(w)
             /\ lastOp' = HookOp("stopped")
        ELSE /\ wh' = [w EXCEPT !.stopping = "delete"]
             /\ lastOp' = HookOp("swept")
  /\ UNCHANGED <<recon, remote, sched, sig>>

\* cleanupWebhook of that stop after deleteWebhook() answered (ok) or threw
StopRacingDeleted(ok) ==
  /\ wh.stopping = "delete"
  /\ LET s == MinId(wh.stopTodo)
         todo == wh.stopTodo \ {s}
         w == [wh EXCEPT !.stopTodo = todo, !.clean = @ /\ ok]
     IN /\ remote' = IF ok
                     THEN [remote EXCEPT !.subs = {t \in @ : t.id # s.id}]
                     ELSE remote
        /\ IF todo = {}
           THEN /\ wh' = StopRacingReturned(w)
                /\ lastOp' = HookOp("stopped")
           ELSE /\ wh' = w
                /\ lastOp' = HookOp("deleted")
  /\ UNCHANGED <<recon, sched, sig>>

\* ------------------------------------------------------------------------
\* WebhookServer.verifySignature
\*
\* A header is a string over a few hexadecimal digits, a character that is
\* not one, and the text "sha256=" taken as a unit.
\* ------------------------------------------------------------------------
MaxHeaderLen == 4

HexChars == {"0", "a", "A"}
Prefix == "sha256="
HeaderChars == HexChars \cup {"z", Prefix}

RECURSIVE SeqsUpTo(_, _)
SeqsUpTo(S, n) ==
  IF n = 0 THEN {<<>>}
  ELSE LET shorter == SeqsUpTo(S, n - 1)
       IN shorter \cup {Append(h, c) : h \in shorter, c \in S}

Headers == SeqsUpTo(HeaderChars, MaxHeaderLen)

Nibble(c) == IF c = "0" THEN 0 ELSE 10
HexDigit(n) == IF n = 0 THEN "0" ELSE "a"

\* Buffer.from(str, 'hex'): decodes pairs of digits and stops at the first
\* pair that is not two hexadecimal digits; a last single digit is dropped
RECURSIVE fromHex(_)
fromHex(str) ==
  IF Len(str) < 2 \/ str[1] \notin HexChars \/ str[2] \notin HexChars
  THEN <<>>
  ELSE <<16 * Nibble(str[1]) + Nibble(str[2])>> \o fromHex(SubSeq(str, 3, Len(str)))

\* digest('hex'): lower-case digits
RECURSIVE toHex(_)
toHex(bytes) ==
  IF bytes = <<>> THEN <<>>
  ELSE <<HexDigit(Head(bytes) \div 16), HexDigit(Head(bytes) % 16)>>
         \o toHex(Tail(bytes))

\* signature.replace('sha256=', ''): the first occurrence, wherever it is
RECURSIVE replaceFirst(_, _)
replaceFirst(str, tok) ==
  IF str = <<>> THEN <<>>
  ELSE IF Head(str) = tok THEN Tail(str)
  ELSE <<Head(str)>> \o replaceFirst(Tail(str), tok)

\* request bodies: text that JSON.parse rejects, the text "null", and events
BadBody == [text |-> "garbage", device_id |-> NoDevice, event_type |-> NoEventType]
NullBody == [text |-> "null", device_id |-> NoDevice, event_type |-> NoEventType]
UnlockBody == [text |-> "event", device_id |-> DeviceUnderTest,
               event_type |-> "lock.unlocked"]
Bodies == <<BadBody, NullBody, UnlockBody>>
BodyIndex(body) == CHOOSE i \in 1..Len(Bodies) : Bodies[i] = body

\* crypto.createHmac('sha256', secret).update(payload, 'utf8'): the digest, one
\* byte here, differs for two payloads under one secret and for two secrets
\* on one payload
DigestBytes == <<0, 10, 160, 170>>
hmac(secret, payload) ==
  <<DigestBytes[((secret + BodyIndex(payload)) % Len(DigestBytes)) + 1]>>

\* crypto.timingSafeEqual throws on buffers of different length, and the
\* catch returns false
verifySignature(secret, payload, signature) ==
  IF secret = NoValue THEN TRUE
  ELSE IF signature = <<>> THEN FALSE
  ELSE LET expected == fromHex(toHex(hmac(secret, payload)))
           provided == fromHex(replaceFirst(signature, Prefix))
       IN IF Len(expected) # Len(provided) THEN FALSE
          ELSE expected = provided

NoSig == [secret |-> NoValue, payload |-> BadBody, signature |-> <<>>,
          result |-> "none"]

\* one call verifySignature(payload, signature) on a server holding secret
VerifySignature ==
  /\ sig.result = "none"
  /\ sig' = [sig EXCEPT !.result =
               IF verifySignature(sig.secret, sig.payload, sig.signature)
               THEN "true" ELSE "false"]
  /\ lastOp' = HookOp("verifySignature")
  /\ UNCHANGED <<recon, wh, remote, sched>>

\* ------------------------------------------------------------------------
\* WebhookServer.handleRequest: the 'end' callback included
\* ------------------------------------------------------------------------
HttpOp(code, verdict, routed, body, a, b) ==
  [NoOp EXCEPT !.kind = "http", !.code = code, !.verdict = verdict,
               !.routed = routed, !.event = body.text,
               !.dev = DeviceUnderTest, !.changed = Changed(a, b)]

\* the request line: req.method and req.url
RequestLine(op, method, url) == [op EXCEPT !.method = method, !.url = url]

\* the signature headers a request for body may carry
RequestSignatures(secret, body) ==
  { <<>>,
    <<Prefix>> \o toHex(hmac(secret, body)),
    toHex(hmac(secret, body)),
    <<Prefix>> \o toHex(hmac(secret, body)) \o <<"z">>,
    <<Prefix>> \o toHex(hmac(secret + 1, body)),
    <<Prefix, "z">> }

HandleRequest_anyPath(method, url, signature, body) ==
  LET a == acc[DeviceUnderTest]
      verdict == IF signature = <<>> THEN "absent"
                 ELSE IF verifySignature(wh.secret, body, signature)
                 THEN "valid" ELSE "invalid"
      accepted == /\ method = "POST"
                  /\ verdict # "invalid"
                  /\ body.text = "event"
      b == IF accepted
           THEN processWebhook(a, body.event_type, EventTime(Undefined, now),
                               Undefined)
           ELSE a
      code == IF method # "POST" THEN 404
              ELSE IF verdict = "invalid" THEN 401
              ELSE IF body.text # "event" THEN 400
              ELSE 200
  IN /\ Listening
     /\ acc' = [acc EXCEPT ![DeviceUnderTest] = b]
     /\ maxSeen' = [maxSeen EXCEPT ![DeviceUnderTest] = Seen(@, b)]
     /\ lastOp' = RequestLine(HttpOp(code, verdict, method = "POST", body, a, b),
                              method, url)
     /\ UNCHANGED <<now, pc, req, waiters, calls, settled>>
     /\ UNCHANGED <<wh, remote, sched, sig>>

HandleRequest_noSignatureCheck(method, url, signature, body) ==
  LET a == acc[DeviceUnderTest]
      verdict == IF signature = <<>> THEN "absent"
                 ELSE IF verifySignature(wh.secret, body, signature)
                 THEN "valid" ELSE "invalid"
      b == IF method = "POST" /\ url = wh.path /\ body.text = "event"
           THEN processWebhook(a, body.event_type, EventTime(Undefined, now),
                               Undefined)
           ELSE a
      code == IF method # "POST" \/ url # wh.path THEN 404
              ELSE IF body.text # "event" THEN 400
              ELSE 200
  IN /\ Listening
     /\ acc' = [acc EXCEPT ![DeviceUnderTest] = b]
     /\ maxSeen' = [maxSeen EXCEPT ![DeviceUnderTest] = Seen(@, b)]
     /\ lastOp' = RequestLine(HttpOp(code, verdict,
                                     method = "POST" /\ url = wh.path,
                                     body, a, b),
                              method, url)
     /\ UNCHANGED <<now, pc, req, waiters, calls, settled>>
     /\ UNCHANGED <<wh, remote, sched, sig>>

HandleRequest(method, url, signature, body) ==
  LET a == acc[DeviceUnderTest]
      verdict == IF signature = <<>> THEN "absent"
                 ELSE IF verifySignature(wh.secret, body, signature)
                 THEN "valid" ELSE "invalid"
      \* JSON.parse(body) returned an object: processWebhook(payload) runs
      accepted == /\ method = "POST" /\ url = wh.path
                  /\ verdict # "invalid"
                  /\ body.text = "event"
      b == IF accepted
           THEN processWebhook(a, body.event_type, EventTime(Undefined, now),
                               Undefined)
           ELSE a
      code == IF method # "POST" \/ url # wh.path THEN 404
              ELSE IF verdict = "invalid" THEN 401
              \* JSON.parse throws, or payload is null and reading
              \* payload.event_type throws: the catch answers 400
              ELSE IF body.text # "event" THEN 400
              ELSE 200
  IN /\ Listening
     /\ acc' = [acc EXCEPT ![DeviceUnderTest] = b]
     /\ maxSeen' = [maxSeen EXCEPT ![DeviceUnderTest] = Seen(@, b)]
     /\ lastOp' = RequestLine(HttpOp(code, verdict,
                                     method = "POST" /\ url = wh.path,
                                     body, a, b),
                              method, url)
     /\ UNCHANGED <<now, pc, req, waiters, calls, settled>>
     /\ UNCHANGED <<wh, remote, sched, sig>>

\* ------------------------------------------------------------------------
\* SeamAPI.getLockStatus and SeamPlatform.startPolling, pollDevices, cleanup
\* ------------------------------------------------------------------------
MaxCycles == 2                         \* poll cycles running at once

\* this.accessories, in the order of discovery
AccessoryList == <<"d1", "d2">>
NoTimer == 0                           \* pollingInterval = null
Aborted == -1                          \* a cycle whose promise rejected

Merge(f, g) ==
  [x \in DOMAIN f \cup DOMAIN g |-> IF x \in DOMAIN f THEN f[x] ELSE g[x]]

\* device.properties as the remote API answers it: any of the fields may be
\* missing; battery_level is written here in thousandths, so that a fraction
\* of 1 and a whole percentage are both integers
FractionBattery == 150                 \* 0.15
DefaultBattery == 100
One == 1000                            \* the number 1, in thousandths
DeviceProperties ==
  {Merge(l, Merge(b, o)) :
     l \in {NoFields} \cup {[locked |-> v] : v \in BOOLEAN},
     b \in {NoFields, [battery_level |-> FractionBattery]},
     o \in {[online |-> TRUE, door_open |-> FALSE]}}

StatusFields == {"locked", "battery_level", "online", "door_open"}

\* SeamAPI.getLockStatus(deviceId), from the device that getDevice returned
getLockStatus(props) ==
  [ locked        |-> IF Has(props, "locked") THEN props.locked ELSE FALSE,
    battery_level |->
      LET \* device.properties?.battery_level || 100
          level == IF Has(props, "battery_level") /\ props.battery_level # 0
                   THEN props.battery_level ELSE DefaultBattery * One
      IN \* batteryLevel <= 1: Math.round(batteryLevel * 100), half up
         IF level <= One THEN (level * 100 + One \div 2) \div One
         ELSE level \div One,
    online        |-> IF Has(props, "online") THEN props.online ELSE FALSE,
    door_open     |-> IF Has(props, "door_open") THEN props.door_open ELSE FALSE ]

\* launched: didFinishLaunching was delivered; setup: the calls of
\* setupDevice that have returned; started: discoverDevices went past the
\* setup loop; cleaned: cleanup() was called
NewScheduler ==
  [ pollingInterval |-> NoTimer,
    timers          |-> {},
    issued          |-> 0,
    cycles          |-> [k \in 1..MaxCycles |-> 0],
    launched        |-> TRUE,
    setup           |-> Len(AccessoryList),
    started         |-> FALSE,
    cleaned         |-> FALSE ]

\* the cycle a call of pollDevices becomes: the lowest slot not in use
FreeCycle(k) ==
  /\ sched.cycles[k] = 0
  /\ \A j \in 1..MaxCycles : sched.cycles[j] = 0 => k <= j

\* pollDevices() up to its first await: getLockStatus of the first accessory
BeginCycle(cycles, k) == [cycles EXCEPT ![k] = 1]

\* the loop goes on to the next accessory, or the cycle is complete
NextPosition(i) == IF i < Len(AccessoryList) THEN i + 1 ELSE 0

\* startPolling()
startPolling_keepTimer(k) ==
  /\ FreeCycle(k)
  /\ sched.issued < MaxStarts
  /\ LET id == sched.issued + 1
     IN sched' = [sched EXCEPT !.timers = @ \cup {id},
                               !.cycles = BeginCycle(@, k),
                               !.pollingInterval = id,
                               !.issued = id]
  /\ lastOp' = [HookOp("startPolling") EXCEPT !.caller = k]
  /\ UNCHANGED <<recon, wh, remote, sig>>

startPolling(k) ==
  /\ FreeCycle(k)
  /\ sched.issued < MaxStarts
  /\ LET id == sched.issued + 1
     IN sched' = [sched EXCEPT
                    \* clearInterval(this.pollingInterval), setInterval(...)
                    !.timers = (@ \ {sched.pollingInterval}) \cup {id},
                    !.cycles = BeginCycle(@, k),
                    !.pollingInterval = id,
                    !.issued = id]
  /\ lastOp' = [HookOp("startPolling") EXCEPT !.caller = k]
  /\ UNCHANGED <<recon, wh, remote, sig>>

\* the callback of a timer that setInterval created and nothing cleared
PollTimer(t, k) ==
  /\ t \in sched.timers
  /\ FreeCycle(k)
  /\ sched' = [sched EXCEPT !.cycles = BeginCycle(@, k)]
  /\ lastOp' = [HookOp("pollTimer") EXCEPT !.caller = k]
  /\ UNCHANGED <<recon, wh, remote, sig>>

\* cycle k: getLockStatus answered with the device's properties
PollAnswer(k, props) ==
  /\ sched.cycles[k] >= 1
  /\ LET i == sched.cycles[k]
         d == AccessoryList[i]
         status == getLockStatus(props)
         b == updateStateWithPriority(acc[d], status, "polling", now)
     IN /\ acc' = [acc EXCEPT ![d] = b]
        /\ maxSeen' = [maxSeen EXCEPT ![d] = Seen(@, b)]
        /\ sched' = [sched EXCEPT !.cycles[k] = NextPosition(i)]
        /\ lastOp' = [NoOp EXCEPT !.kind = "pollAnswer", !.dev = d,
                                  !.changed = Changed(acc[d], b),
                                  !.omitted = StatusFields \ DOMAIN props]
  /\ UNCHANGED <<now, pc, req, waiters, calls, settled>>
  /\ UNCHANGED <<wh, remote, sig>>

\* cycle k: getLockStatus threw (network error, timeout, non-success status)
PollError_abort(k) ==
  /\ sched.cycles[k] >= 1
  /\ sched' = [sched EXCEPT !.cycles[k] = Aborted]
  /\ lastOp' = [HookOp("pollFailed") EXCEPT
                  !.caller = k, !.dev = AccessoryList[sched.cycles[k]]]
  /\ UNCHANGED <<recon, wh, remote, sig>>

PollError(k) ==
  /\ sched.cycles[k] >= 1
  /\ sched' = [sched EXCEPT !.cycles[k] = NextPosition(@)]
  /\ lastOp' = [HookOp("pollFailed") EXCEPT
                  !.caller = k, !.dev = AccessoryList[sched.cycles[k]]]
  /\ UNCHANGED <<recon, wh, remote, sig>>

\* cleanup() of a platform without webhook server: the polling timer stops
cleanup ==
  /\ sched.pollingInterval # NoTimer
  /\ sched' = [sched EXCEPT !.timers = @ \ {sched.pollingInterval},
                            !.pollingInterval = NoTimer]
  /\ lastOp' = HookOp("cleanup")
  /\ UNCHANGED <<recon, wh, remote, sig>>

\* ------------------------------------------------------------------------
\* LockAccessory.getLockCurrentState: a HomeKit read of the lock state, which
\* queries the remote status
\* ------------------------------------------------------------------------
\* raw battery levels of the remote device, in thousandths: 0, 0.004, 0.005,
\* 0.15, 1, 2, 55 and 100
RawBatteries == {0, 4, 5, FractionBattery, One, 2 * One, 55 * One, 100 * One}
RawProperties ==
  {Merge(l, Merge(b, [online |-> TRUE, door_open |-> FALSE])) :
     l \in {NoFields} \cup {[locked |-> v] : v \in BOOLEAN},
     b \in {NoFields} \cup {[battery_level |-> r] : r \in RawBatteries}}

\* the read up to await Promise.race([statusPromise, timeoutPromise])
GetLockCurrentState(c, d) ==
  /\ FreeSlot(c)
  /\ pc' = [pc EXCEPT ![c] = "reading"]
  /\ req' = [req EXCEPT ![c] = [dev |-> d, shouldLock |-> FALSE]]
  /\ calls' = [calls EXCEPT ![c] = 1]
  /\ lastOp' = CmdOp("stateRead", d, c, acc[d], acc[d])
  /\ UNCHANGED <<acc, now, waiters, maxSeen, settled>>
  /\ UNCHANGED <<wh, remote, sched, sig>>

\* getLockStatus resolved first: this.isLocked = status.locked, then the
\* battery fields and the battery cache
LockStateAnswer(c, props) ==
  /\ pc[c] = "reading"
  /\ LET d == req[c].dev
         a == acc[d]
         status == getLockStatus(props)
         isLow == status.battery_level < LowBatteryThreshold
         b == updateBatteryCache(
                [a EXCEPT !.isLocked = status.locked,
                          !.batteryLevel = status.battery_level,
                          !.isLowBattery = isLow],
                status.battery_level, isLow, now)
     IN /\ acc' = [acc EXCEPT ![d] = b]
        /\ lastOp' = [CmdOp("stateAnswer", d, c, a, b)
                       EXCEPT !.reported = status.battery_level,
                              !.raw = IF Has(props, "battery_level")
                                      THEN props.battery_level ELSE Undefined]
  /\ pc' = [pc EXCEPT ![c] = "idle"]
  /\ req' = [req EXCEPT ![c] = Idle]
  /\ calls' = [calls EXCEPT ![c] = 0]
  /\ UNCHANGED <<now, waiters, maxSeen, settled>>
  /\ UNCHANGED <<wh, remote, sched, sig>>

\* getLockStatus rejected or the 5 s timer won: the state held is returned
LockStateFail(c) ==
  /\ pc[c] = "reading"
  /\ lastOp' = CmdOp("stateFallback", req[c].dev, c,
                     acc[req[c].dev], acc[req[c].dev])
  /\ pc' = [pc EXCEPT ![c] = "idle"]
  /\ req' = [req EXCEPT ![c] = Idle]
  /\ calls' = [calls EXCEPT ![c] = 0]
  /\ UNCHANGED <<acc, now, waiters, maxSeen, settled>>
  /\ UNCHANGED <<wh, remote, sched, sig>>

\* ------------------------------------------------------------------------
\* SeamPlatform: didFinishLaunching, discoverDevices, shutdown
\*
\* cleanup() awaits webhookServer.stop(); a shutdown that arrives while
\* start() is still running would run stop() next to it, and as above one
\* call of start or stop runs at a time: the shutdown event is delivered
\* before start() is called or after it has returned. SpecRace alone runs
\* stop() beside start().
\* ------------------------------------------------------------------------
\* the platform as the constructor leaves it
NewPlatform == [NewScheduler EXCEPT !.launched = FALSE, !.setup = 0]

\* this.webhookServer is set
HasWebhookServer == sched.started /\ wh.enabled

\* new WebhookServer(this, this.config.webhooks).start() up to its first
\* await, for a configuration with webhooks enabled
StartEnabled(w) ==
  IF w.url = NoUrl THEN w
  ELSE LET n == w.generated + 1
       IN [w EXCEPT !.generated = n,
                    !.path = generatePath(n),
                    !.secret = generateSecret(n),
                    !.webhookUrl = [origin |-> w.url, path |-> generatePath(n)],
                    !.server = TRUE,
                    !.op = "start", !.pc = "listen", !.clean = TRUE]

\* didFinishLaunching: discoverDevices() up to await setupDevice(...) of the
\* first device
discoverDevices ==
  /\ ~sched.launched
  /\ sched' = [sched EXCEPT !.launched = TRUE]
  /\ lastOp' = HookOp("discoverDevices")
  /\ UNCHANGED <<recon, wh, remote, sig>>

\* setupDevice returned and another device follows
setupDevice ==
  /\ sched.launched /\ ~sched.started
  /\ sched.setup + 1 < Len(AccessoryList)
  /\ sched' = [sched EXCEPT !.setup = @ + 1]
  /\ lastOp' = HookOp("setupDevice")
  /\ UNCHANGED <<recon, wh, remote, sig>>

\* setupDevice of the last device returned: startPolling(), then, with
\* webhooks enabled, the webhook server is created and started
DevicesConfigured(k) ==
  /\ sched.launched /\ ~sched.started
  /\ sched.setup + 1 = Len(AccessoryList)
  /\ FreeCycle(k)
  /\ sched.issued < MaxStarts
  /\ LET id == sched.issued + 1
     IN sched' = [sched EXCEPT
                    !.setup = @ + 1,
                    !.started = TRUE,
                    !.timers = (@ \ {sched.pollingInterval}) \cup {id},
                    !.cycles = BeginCycle(@, k),
                    !.pollingInterval = id,
                    !.issued = id]
  /\ wh' = IF wh.enabled THEN StartEnabled(wh) ELSE wh
  /\ lastOp' = [HookOp("configured") EXCEPT !.caller = k]
  /\ UNCHANGED <<recon, remote, sig>>

\* shutdown: cleanup() up to await this.webhookServer.stop(), or to its end
\* when there is no webhook server
Shutdown ==
  /\ sched.launched /\ ~sched.cleaned
  /\ ~(HasWebhookServer /\ wh.op # "none")
  /\ sched' = [sched EXCEPT !.timers = @ \ {sched.pollingInterval},
                            !.pollingInterval = NoTimer,
                            !.cleaned = TRUE]
  /\ wh' = IF HasWebhookServer
           THEN [wh EXCEPT !.op = "stop", !.clean = TRUE,
                           !.pc = IF wh.server THEN "close" ELSE "sweep"]
           ELSE wh
  /\ lastOp' = HookOp("shutdown")
  /\ UNCHANGED <<recon, remote, sig>>

\* cleanup() has completed: 'Platform cleanup completed'
Cleaned == sched.cleaned /\ wh.op # "stop"

\* ------------------------------------------------------------------------
\* Specifications
\*
\* Accessories share no state, and the timestamps of updates and the number
\* of concurrent set requests are independent dimensions; each specification
\* opens the dimensions its properties are about.
\*   Spec     reconciliation: every update of DeviceUnderTest with every
\*            timestamp, set requests one at a time
\*   SpecCmd  command serialisation: up to MaxCallers concurrent set requests,
\*            updates that carry locked and are stamped with the clock
\*   SpecLive the set requests alone (no update reads or writes what a
\*            request waits for), with the timers of executeLockCommand firing
\*   SpecDev  set requests and updates for both devices, one request at a
\*            time per device
\*   SpecHook the webhook server: start and stop with remote calls that
\*            answer or throw, and requests to the listener
\*   SpecPoll the polling timer and overlapping poll cycles over both
\*            accessories, with status queries that answer or throw
\*   SpecSig  verifySignature on every header up to MaxHeaderLen characters
\*   SpecPlatform  discovery, start of polling and of the webhook server,
\*            and shutdown
\*   SpecRead  lock-state reads beside set requests, with every raw battery
\*            level of RawBatteries
\*   SpecStale  a poll whose status query is outstanding while set requests
\*            run
\*   SpecRace  one start with webhooks enabled, and a stop that begins while
\*            start awaits a remote call
\*   SpecCache  up to MaxCallers concurrent battery reads of DeviceUnderTest,
\*            beside polls and battery events
\* ------------------------------------------------------------------------
\* webhooks not configured, polling not started
DefaultConfig == [enabled |-> FALSE, url |-> NoUrl, path |-> NoValue,
                  secret |-> NoValue]
NoRemote == [subs |-> {}, issued |-> 0]

Init ==
  /\ InitAccessories
  /\ wh = NewWebhookServer(DefaultConfig)
  /\ remote = NoRemote
  /\ sched = NewScheduler
  /\ sig = NoSig

PlainEvents == EventTypes \ {"device.low_battery", "device.battery_status_changed"}
BatteryEvents == {"device.low_battery", "device.battery_status_changed"}
LockStatuses == {st \in Statuses : st.battery_level = InitialBattery /\ ~st.door_open}

Quiet == \A c \in Callers : pc[c] = "idle"

Next ==
  \/ Tick
  \/ \E status \in Statuses : PollDevice(DeviceUnderTest, status)
  \/ \E e \in PlainEvents, o \in OccurredAts :
        Webhook(DeviceUnderTest, e, o, Undefined)
  \/ \E e \in BatteryEvents, o \in OccurredAts, bl \in PayloadBatteries :
        Webhook(DeviceUnderTest, e, o, bl)
  \/ \E e \in EventTypes : Webhook(NoDevice, e, Undefined, Undefined)
  \/ Webhook(DeviceUnderTest, NoEventType, Undefined, Undefined)
  \/ \E c \in Callers, v \in BOOLEAN :
        Quiet /\ SetLockTargetState(c, DeviceUnderTest, v)
  \/ \E c \in Callers : CommandSuccess(c)
  \/ \E c \in Callers : CommandFail(c)
  \/ \E c \in Callers : SettlePauseDone(c)

Spec == Init /\ [][Next]_vars

NextCmd ==
  \/ Tick
  \/ \E status \in LockStatuses : PollDevice(DeviceUnderTest, status)
  \/ \E e \in {"lock.locked", "lock.unlocked"} :
        Webhook(DeviceUnderTest, e, Undefined, Undefined)
  \/ \E c \in Callers, v \in BOOLEAN : SetLockTargetState(c, DeviceUnderTest, v)
  \/ \E c \in Callers : CommandSuccess(c)
  \/ \E c \in Callers : CommandFail(c)
  \/ \E c \in Callers : SettlePauseDone(c)

InitCmd == Init /\ ~acc[DeviceUnderTest].supportsDoorSensor

SpecCmd == InitCmd /\ [][NextCmd]_vars

NextLive ==
  \/ \E c \in Callers, v \in BOOLEAN : SetLockTargetState(c, DeviceUnderTest, v)
  \/ \E c \in Callers : CommandSuccess(c)
  \/ \E c \in Callers : CommandFail(c)
  \/ \E c \in Callers : SettlePauseDone(c)

\* the 15 s timer of executeLockCommand always fires while the remote call
\* is unanswered, and so does the 2 s timer of the settle pause
SpecLive ==
  /\ InitCmd /\ [][NextLive]_vars
  /\ \A c \in Callers : WF_vars(CommandFail(c)) /\ WF_vars(SettlePauseDone(c))

\* two devices: set requests for both, one at a time for each device, and
\* polls and lock events for both
NextDev ==
  \/ Tick
  \/ \E d \in Devices, status \in LockStatuses : PollDevice(d, status)
  \/ \E d \in Devices, e \in {"lock.locked", "lock.unlocked"} :
        Webhook(d, e, Undefined, Undefined)
  \/ \E c \in Callers, d \in Devices, v \in BOOLEAN :
        Active(d) = {} /\ SetLockTargetState(c, d, v)
  \/ \E c \in Callers : CommandSuccess(c)
  \/ \E c \in Callers : CommandFail(c)
  \/ \E c \in Callers : SettlePauseDone(c)

SpecDev == InitCmd /\ [][NextDev]_vars

\* webhook lifecycle: every configuration, the subscriptions earlier runs
\* may have left (at most one for the base URL), and requests to the listener
InitHook ==
  /\ InitAccessories
  /\ \E config \in WebhookConfigs : wh = NewWebhookServer(config)
  /\ \E subs \in SUBSET ResidualSubs :
       /\ Cardinality(Matching(subs, BaseUrl)) <= 1
       /\ remote = [subs |-> subs, issued |-> Cardinality(ResidualSubs)]
  /\ sched = NewScheduler
  /\ sig = NoSig

\* the generated path, the path the configuration held, and the paths of
\* earlier listening periods
RequestUrls == {SavedValue, generatePath(wh.generated)} \cup wh.pastPaths

NextHook ==
  \/ Start
  \/ Listen
  \/ \E ok \in BOOLEAN : RegisterListed(ok)
  \/ \E ok \in BOOLEAN : Swept(ok)
  \/ \E ok \in BOOLEAN : Deleted(ok)
  \/ \E ok \in BOOLEAN : Created(ok)
  \/ CreateRejected
  \/ Stop
  \/ Closed
  \/ \E m \in {"POST", "GET"}, u \in RequestUrls :
       /\ m # "POST" \/ u # wh.path
       /\ HandleRequest(m, u, <<>>, UnlockBody)
  \/ \E i \in 1..Len(Bodies) :
       \E h \in RequestSignatures(wh.secret, Bodies[i]) :
         HandleRequest("POST", wh.path, h, Bodies[i])

SpecHook == InitHook /\ [][NextHook]_vars

\* polling: the scheduler and the cycles over both accessories
InitPoll ==
  /\ InitAccessories /\ ~acc[DeviceUnderTest].supportsDoorSensor
  /\ wh = NewWebhookServer(DefaultConfig)
  /\ remote = NoRemote
  /\ sched = NewScheduler
  /\ sig = NoSig

NextPoll ==
  \/ Tick
  \/ \E k \in 1..MaxCycles : startPolling(k)
  \/ \E t \in 1..MaxStarts, k \in 1..MaxCycles : PollTimer(t, k)
  \/ \E k \in 1..MaxCycles, props \in DeviceProperties : PollAnswer(k, props)
  \/ \E k \in 1..MaxCycles : PollError(k)
  \/ cleanup

SpecPoll == InitPoll /\ [][NextPoll]_vars

\* the platform from its construction on: discovery, and a shutdown
\* event at any point outside start()
InitPlatform ==
  /\ InitAccessories /\ ~acc[DeviceUnderTest].supportsDoorSensor
  /\ \E config \in WebhookConfigs : wh = NewWebhookServer(config)
  /\ \E subs \in SUBSET ResidualSubs :
       /\ Cardinality(Matching(subs, BaseUrl)) <= 1
       /\ remote = [subs |-> subs, issued |-> Cardinality(ResidualSubs)]
  /\ sched = NewPlatform
  /\ sig = NoSig

\* a device that reports every field, with the values a new accessory holds
SettledProperties == [locked |-> TRUE, online |-> TRUE, door_open |-> FALSE]

NextPlatform ==
  \/ discoverDevices
  \/ setupDevice
  \/ \E k \in 1..MaxCycles : DevicesConfigured(k)
  \/ Shutdown
  \/ Listen
  \/ \E ok \in BOOLEAN : RegisterListed(ok)
  \/ \E ok \in BOOLEAN : Swept(ok)
  \/ \E ok \in BOOLEAN : Deleted(ok)
  \/ \E ok \in BOOLEAN : Created(ok)
  \/ Closed
  \/ \E t \in 1..MaxStarts, k \in 1..MaxCycles : PollTimer(t, k)
  \/ \E k \in 1..MaxCycles : PollAnswer(k, SettledProperties)
  \/ \E k \in 1..MaxCycles : PollError(k)

SpecPlatform == InitPlatform /\ [][NextPlatform]_vars

\* battery reads of HomeKit beside the polls and battery events that write the
\* cache; the remote status carries any battery_level, 0 included
NextCache ==
  \/ Tick
  \/ \E c \in Callers : GetBatteryLevel(c, DeviceUnderTest)
  \/ \E c \in Callers, bl \in {0} \cup BatteryLevels : BatteryAnswer(c, bl)
  \/ \E c \in Callers : BatteryFail(c)
  \/ \E status \in LockStatuses : PollDevice(DeviceUnderTest, status)
  \/ \E bl \in BatteryLevels :
        Webhook(DeviceUnderTest, "device.low_battery", Undefined, bl)

SpecCache == InitCmd /\ [][NextCache]_vars

\* lock-state reads of HomeKit beside set requests, one request of each kind
\* at a time; the remote device reports any of RawProperties
NextRead ==
  \/ Tick
  \/ \E c \in Callers :
        /\ \A k \in Callers : pc[k] # "reading"
        /\ GetLockCurrentState(c, DeviceUnderTest)
  \/ \E c \in Callers, props \in RawProperties : LockStateAnswer(c, props)
  \/ \E c \in Callers : LockStateFail(c)
  \/ \E c \in Callers, v \in BOOLEAN :
        /\ \A k \in Callers : pc[k] \in {"idle", "reading"}
        /\ SetLockTargetState(c, DeviceUnderTest, v)
  \/ \E c \in Callers : CommandSuccess(c)
  \/ \E c \in Callers : CommandFail(c)
  \/ \E c \in Callers : SettlePauseDone(c)

SpecRead == InitCmd /\ [][NextRead]_vars

\* one poll cycle whose first status query was sent before any set request
\* arrived and is answered, with the state the device had then, at any
\* later point; set requests one at a time
NextStale ==
  \/ Tick
  \/ \E k \in 1..MaxCycles : sched.issued = 0 /\ startPolling(k)
  \/ \E k \in 1..MaxCycles : PollAnswer(k, SettledProperties)
  \/ \E k \in 1..MaxCycles : PollError(k)
  \/ \E c \in Callers, v \in BOOLEAN :
        sched.issued > 0 /\ Quiet /\ SetLockTargetState(c, DeviceUnderTest, v)
  \/ \E c \in Callers : CommandSuccess(c)
  \/ \E c \in Callers : CommandFail(c)
  \/ \E c \in Callers : SettlePauseDone(c)

SpecStale == InitPoll /\ [][NextStale]_vars

\* the webhook server of a platform with webhooks enabled: start is called
\* once, and the shutdown arrives while registerWebhook is waiting
InitRace == InitHook /\ wh.enabled

NextRace ==
  \/ wh.generated = 0 /\ Start
  \/ Listen
  \/ \E ok \in BOOLEAN : RegisterListed(ok)
  \/ \E ok \in BOOLEAN : Swept(ok)
  \/ \E ok \in BOOLEAN : Deleted(ok)
  \/ \E ok \in BOOLEAN : Created(ok)
  \/ StopRacing
  \/ StopRacingClosed
  \/ \E ok \in BOOLEAN : StopRacingSwept(ok)
  \/ \E ok \in BOOLEAN : StopRacingDeleted(ok)

SpecRace == InitRace /\ [][NextRace]_vars

\* verifySignature on every secret, payload and header
InitSig ==
  /\ InitAccessories /\ ~acc[DeviceUnderTest].supportsDoorSensor
  /\ wh = NewWebhookServer(DefaultConfig)
  /\ remote = NoRemote
  /\ sched = NewScheduler
  /\ \E secret \in {NoValue} \cup {generateSecret(n) : n \in 1..MaxStarts},
        i \in 1..Len(Bodies), h \in Headers :
       sig = [secret |-> secret, payload |-> Bodies[i], signature |-> h,
              result |-> "none"]

NextSig == VerifySignature

SpecSig == InitSig /\ [][NextSig]_vars

\* ------------------------------------------------------------------------
\* Properties
\* ------------------------------------------------------------------------
IsUpdate == lastOp.kind \in {"poll", "webhook"}
DeviceOf(c) == req[c].dev

\* C1: a polling or webhook update whose event time is not newer than the
\* event time of an update accepted before it leaves the whole device state
\* (locked, batteryLevel, lowBattery, doorOpen, lastEventTime) unchanged.
C1_StaleRejection == IsUpdate /\ lastOp.stale => lastOp.changed = {}

C3_AtMostOneInFlight == \A d \in Devices : Cardinality(Outstanding(d)) <= 1

\* C4: until the first command of a device completes, exactly one remote
\* call has been issued for it however many requests arrived, and a request
\* that waits has issued none.
C4_OneCallBeforeFirstCompletes ==
  \A d \in Devices :
    ~settled[d] /\ Active(d) # {} =>
      /\ Cardinality(Outstanding(d)) = 1
      /\ \A c \in Active(d) : calls[c] = IF c \in Outstanding(d) THEN 1 ELSE 0
      /\ \A w \in Waiting(d) : \E k \in Outstanding(d) : w \in Range(waiters[k])

\* two requests to lock the same device are pending, the second one waits
C4_Witness ==
  \E c, w \in Callers :
    /\ pc[c] = "calling" /\ pc[w] = "waiting" /\ DeviceOf(w) = DeviceOf(c)
    /\ ~settled[DeviceOf(c)]
    /\ req[c].shouldLock /\ req[w].shouldLock

\* C5 as stated: a request that waited issues its own remote call only if
\* the locked state left by the awaited command differs from what it wants.
C5_IssuesOnlyIfRequired ==
  lastOp.kind = "commandDone" =>
    \A w \in lastOp.resumed :
      pc[w] = "calling" => req[w].shouldLock # acc[lastOp.dev].isLocked

\* C5 amended: a request that waited issues its own remote call as soon as
\* the awaited command completes successfully, whatever the locked state is.
C5_IssuesAlways ==
  lastOp.kind = "commandDone" =>
    \A w \in lastOp.resumed : pc[w] = "calling" /\ calls[w] = 1

\* a waiter whose desired state the awaited command already reached resumed
C5_Witness ==
  /\ lastOp.kind = "commandDone"
  /\ Cardinality(lastOp.resumed) = 1
  /\ \A w \in lastOp.resumed : req[w].shouldLock = acc[lastOp.dev].isLocked

\* C6: every set request returns, and whenever no request of a device is
\* pending its isCommandInProgress is false.
C6_RequestsReturn ==
  /\ \A c \in Callers : (pc[c] # "idle") ~> (pc[c] = "idle")
  /\ [](\A d \in Devices : Active(d) = {} => ~acc[d].isCommandInProgress)

\* a command that failed or timed out has returned and released the device
C6_Witness ==
  /\ lastOp.kind = "commandFailed" /\ lastOp.resumed # {}
  /\ Quiet /\ ~acc[lastOp.dev].isCommandInProgress

\* C7: a successful remote call sets locked to the desired value at once,
\* isCommandInProgress stays true during the settle pause, and an update that
\* arrives during the pause does not change locked.
C7_SettlePauseProtected ==
  /\ lastOp.kind = "commandSuccess" =>
       /\ pc[lastOp.caller] = "settling"
       /\ acc[lastOp.dev].isLocked = req[lastOp.caller].shouldLock
  /\ \A c \in Callers : pc[c] = "settling" => acc[DeviceOf(c)].isCommandInProgress
  /\ IsUpdate /\ (\E c \in Callers : pc[c] = "settling" /\ DeviceOf(c) = lastOp.dev)
       => "locked" \notin lastOp.changed

\* C8: after a command succeeded at time t the watermark of the device is t.
C8_CommandSetsWatermark ==
  lastOp.kind = "commandSuccess" => acc[lastOp.dev].lastEventTime = now

\* C9: when the remote call fails or times out the request returns
\* CommunicationFailure, the failure leaves locked as it was, one remote call
\* was issued for the request, and isCommandInProgress is false afterwards.
C9_FailureSurfaced ==
  lastOp.kind = "commandFailed" =>
    /\ <<lastOp.caller, "CommunicationFailure">> \in lastOp.returned
    /\ pc[lastOp.caller] = "idle"
    /\ "locked" \notin lastOp.changed
    /\ lastOp.calls = 1
    /\ ~acc[lastOp.dev].isCommandInProgress

\* the first command of a device failed while no other request was pending
C9_Witness ==
  /\ lastOp.kind = "commandFailed" /\ lastOp.inFlight
  /\ lastOp.resumed = {} /\ Quiet

\* C10: lastEventTime never falls below a value it held before.
C10_WatermarkMonotonic ==
  \A d \in Devices :
    IsNumber(acc[d].lastEventTime) => acc[d].lastEventTime >= maxSeen[d]

\* ------------------------------------------------------------------------
\* Webhook lifecycle, HTTP boundary, signatures, polling
\* ------------------------------------------------------------------------
Ids(subs) == {s.id : s \in subs}

\* C11: across every sequence of start and stop with one base URL the remote
\* API holds at most one subscription whose URL belongs to the base URL.
C11_AtMostOneSubscription == Cardinality(Matching(remote.subs, BaseUrl)) <= 1

\* C12: a POST to the generated path whose signature header is present and
\* does not verify is answered 401, one whose body does not parse (its
\* signature absent or verified) is answered 400, and neither changes any
\* field of any accessory.
C12_ErrorsAbsorbed ==
  [][lastOp'.kind = "http" /\ lastOp'.routed =>
       /\ lastOp'.verdict = "invalid" => lastOp'.code = 401 /\ acc' = acc
       /\ lastOp'.verdict # "invalid" /\ lastOp'.event = "garbage"
            => lastOp'.code = 400 /\ acc' = acc]_vars

\* an unlock event with a signature for another payload was refused while
\* the accessory was locked and had accepted no update
C12_Witness ==
  /\ lastOp.kind = "http" /\ lastOp.routed /\ lastOp.code = 401
  /\ lastOp.event = "event"
  /\ acc[DeviceUnderTest].isLocked
  /\ acc[DeviceUnderTest].lastEventTime = Undefined

\* the header without a leading sha256=
Digits(h) == IF h # <<>> /\ Head(h) = Prefix THEN Tail(h) ELSE h

\* C13: verifySignature is true for the digest in hexadecimal, with or
\* without sha256= in front, and false for a header one bit away from it, of
\* another length, or with a character that is not a hexadecimal digit.
C13_VerifiesExactly ==
  sig.result # "none" /\ sig.secret # NoValue =>
    LET h == sig.signature
        digest == toHex(hmac(sig.secret, sig.payload))
        \* the headers that carry the digest
        correct == {digest, <<Prefix>> \o digest}
        \* h and g differ in one character, and the codes of the two
        \* characters in one bit: "a" is 0x61, "A" is 0x41
        BitFlipped(x, g) ==
          /\ Len(x) = Len(g)
          /\ \E i \in 1..Len(x) :
               /\ {x[i], g[i]} = {"a", "A"}
               /\ \A j \in 1..Len(x) : j # i => x[j] = g[j]
    IN /\ h \in correct => sig.result = "true"
       /\ (\/ \E g \in correct : BitFlipped(h, g)
           \/ \A g \in correct : Len(Digits(h)) # Len(Digits(g))
           \/ \E i \in 1..Len(Digits(h)) : Digits(h)[i] \notin HexChars)
            => sig.result = "false"

C15_PollErrorsAbsorbed ==
  /\ [][lastOp'.kind = "pollFailed" => acc' = acc]_vars
  /\ [](lastOp.kind = "pollFailed" =>
          \E i \in 1..Len(AccessoryList) :
            /\ AccessoryList[i] = lastOp.dev
            /\ sched.cycles[lastOp.caller] = NextPosition(i))
  /\ [](\A k \in 1..MaxCycles : sched.cycles[k] # Aborted)

\* the query for the first accessory failed after that accessory had taken
\* an update, and the cycle now queries the second accessory
C15_Witness ==
  /\ lastOp.kind = "pollFailed" /\ lastOp.dev = AccessoryList[1]
  /\ sched.cycles[lastOp.caller] = 2
  /\ IsNumber(acc[lastOp.dev].lastEventTime)

\* C16: a poll changes no field of the device state whose value the remote
\* response did not provide.
C16_OmittedFieldsUntouched ==
  LET \* the fields of the device state a field of the status is written to
      StateFieldsOf(f) ==
        CASE f = "locked" -> {"locked"}
          [] f = "battery_level" -> {"batteryLevel", "lowBattery"}
          [] f = "door_open" -> {"doorOpen"}
          [] OTHER -> {}
  IN lastOp.kind = "pollAnswer" =>
       \A f \in lastOp.omitted : StateFieldsOf(f) \cap lastOp.changed = {}

\* C17: startPolling starts one poll cycle at once, every timer tick starts
\* one, and at most one timer is active: the one pollingInterval names.
C17_OneTimer ==
  /\ [](/\ Cardinality(sched.timers) <= 1
        /\ sched.timers = {sched.pollingInterval} \ {NoTimer})
  /\ [][lastOp'.kind \in {"startPolling", "pollTimer"} =>
          \A k \in 1..MaxCycles :
            IF k = lastOp'.caller
            THEN sched.cycles[k] = 0 /\ sched'.cycles[k] = 1
            ELSE sched'.cycles[k] = sched.cycles[k]]_vars

\* startPolling was called a second time while the first timer was active
C17_Witness ==
  /\ lastOp.kind = "startPolling"
  /\ sched.issued = 2 /\ sched.timers = {2}

\* C18: with webhooks disabled or without base URL, start binds no listener,
\* generates no path or secret, creates no subscription, and the manager
\* stays Disabled.
C18_StaysDisabled ==
  ~wh.enabled \/ wh.url = NoUrl =>
    /\ ~wh.server
    /\ wh.generated = 0
    /\ wh.path \in {NoValue, SavedValue} /\ wh.secret \in {NoValue, SavedValue}
    /\ wh.webhookUrl = NoWebhookUrl
    /\ remote.issued = Cardinality(ResidualSubs)
    /\ wh.pc \in {"idle", "sweep", "delete"}

\* start was called with webhooks enabled and no base URL
C18_Witness ==
  /\ lastOp.kind = "start" /\ wh.enabled /\ wh.url = NoUrl
  /\ wh.op = "none"

C20_RegistrationResult ==
  /\ ~wh.foreignDeleted
  /\ lastOp.kind = "registered" /\ wh.clean =>
       IF \E s \in wh.before : s.url = wh.webhookUrl
       THEN /\ lastOp.adopted
            /\ remote.subs = wh.before
            /\ \E s \in wh.before : s.url = wh.webhookUrl /\ wh.webhookId = s.id
       ELSE /\ ~lastOp.adopted
            /\ \E n \in remote.subs :
                 /\ n.id \notin Ids(wh.before)
                 /\ n.url = wh.webhookUrl
                 /\ wh.webhookId = n.id
                 /\ remote.subs =
                      (wh.before \ Matching(wh.before, wh.url)) \cup {n}

\* a registration deleted the subscription an earlier run had left and
\* created its own, next to a subscription of another origin
C20_Witness ==
  /\ lastOp.kind = "registered" /\ wh.clean /\ ~lastOp.adopted
  /\ Matching(wh.before, wh.url) # {}
  /\ \E s \in remote.subs : s.url.origin = OtherUrl

\* C21: when stop() completes the listener is closed and path, secret and
\* webhookId are cleared, whether or not the remote calls answered; when
\* they all answered, the subscription webhookId named is no longer held by
\* the remote API.
C21_StopClears ==
  [][lastOp'.kind = "stopped" =>
       /\ ~wh'.server /\ wh'.op = "none"
       /\ wh'.path = NoValue /\ wh'.secret = NoValue /\ wh'.webhookId = 0
       /\ wh'.clean /\ wh.webhookId # 0
            => wh.webhookId \notin Ids(remote'.subs)]_vars

\* stop() completed although the deletion of the subscription this server
\* had created failed: the subscription is still there, the local state is
\* cleared
C21_Witness ==
  /\ lastOp.kind = "stopped" /\ ~wh.clean
  /\ \E s \in remote.subs :
       s.id > Cardinality(ResidualSubs) /\ s.url.origin = wh.url
  /\ ~wh.server /\ wh.path = NoValue /\ wh.secret = NoValue /\ wh.webhookId = 0

\* C22: a request whose method is not POST or whose path is not the path
\* generated by the running start (a path of an earlier listening period
\* included) is answered 404 and changes no accessory; no other request is
\* answered 404.
C22_OnlyCurrentPath ==
  [][lastOp'.kind = "http" =>
       IF lastOp'.method = "POST" /\ lastOp'.url = wh.path
       THEN lastOp'.code # 404
       ELSE lastOp'.code = 404 /\ acc' = acc]_vars

\* during the second listening period a POST to the path of the first one
\* was answered 404
C22_Witness ==
  /\ lastOp.kind = "http" /\ lastOp.method = "POST" /\ lastOp.code = 404
  /\ Listening /\ wh.generated = 2
  /\ lastOp.url = generatePath(1) /\ lastOp.url \in wh.pastPaths

\* C23: a POST to the generated path whose body parses and whose signature
\* is absent or valid is answered 200.
C23_ParsedAnswered200 ==
  (/\ lastOp.kind = "http" /\ lastOp.routed
   /\ lastOp.verdict # "invalid"
   /\ lastOp.event # BadBody.text)
    => lastOp.code = 200

\* ------------------------------------------------------------------------
\* Event mapping, frame conditions, device scope
\* ------------------------------------------------------------------------
\* C24: a webhook event that meets no command in flight and is newer than
\* every update accepted before it leaves locked, batteryLevel and doorOpen
\* as the table of section 4.4 says: the lock events set locked, the battery
\* events set batteryLevel to the payload value (0 included), the door
\* events set doorOpen on a device with door sensor, and no other of these
\* fields changes.
C24_EventMapping ==
  [][\A e \in EventTypes, o \in OccurredAts, bl \in PayloadBatteries :
       LET a == acc[DeviceUnderTest]
           t == EventTime(o, now)
           accepted == /\ ~a.isCommandInProgress
                       /\ IsNumber(t) /\ ~Leq(t, maxSeen[DeviceUnderTest])
           locked == CASE e = "lock.locked" -> TRUE
                       [] e = "lock.unlocked" -> FALSE
                       [] OTHER -> a.isLocked
           battery == IF e \in {"device.low_battery",
                                "device.battery_status_changed"}
                           /\ bl # Undefined
                      THEN bl ELSE a.batteryLevel
           door == CASE e = "device.door_opened" /\ a.supportsDoorSensor -> TRUE
                     [] e = "device.door_closed" /\ a.supportsDoorSensor -> FALSE
                     [] OTHER -> a.isDoorOpen
       IN Webhook(DeviceUnderTest, e, o, bl) /\ accepted
            => /\ acc'[DeviceUnderTest].isLocked = locked
               /\ acc'[DeviceUnderTest].batteryLevel = battery
               /\ acc'[DeviceUnderTest].isDoorOpen = door]_vars

ValueFields == {"locked", "batteryLevel", "doorOpen"}

\* C26: a polling or webhook update changes, of locked, batteryLevel and
\* doorOpen, only fields it carries with a value that differs from the
\* current one (lowBattery follows batteryLevel), and the characteristics
\* of a field are pushed exactly when the value of that field changed; an
\* update whose values equal the current state changes none of them and
\* pushes nothing.
C26_OnlyCarriedFieldsChange ==
  IsUpdate =>
    /\ lastOp.changed \cap ValueFields \subseteq lastOp.carried
    /\ "lowBattery" \in lastOp.changed => "batteryLevel" \in lastOp.changed
    /\ lastOp.notified = lastOp.changed \cap ValueFields

\* a poll that reports the values the accessory holds (unlocked, battery
\* 15) was accepted: the watermark moved, nothing else did
C26_Witness ==
  /\ lastOp.kind = "poll" /\ ~lastOp.stale /\ ~lastOp.inFlight
  /\ lastOp.carried = {} /\ lastOp.notified = {}
  /\ lastOp.changed = {"lastEventTime"}
  /\ ~acc[lastOp.dev].isLocked /\ acc[lastOp.dev].batteryLevel = 15

\* C27: an update for a device that has no command of its own in flight is
\* applied whatever commands are in flight for other devices, a set request
\* for such a device issues its remote call at once, and a request only
\* ever waits for a command of its own device.
C27_PerDeviceScope ==
  /\ IsUpdate /\ ~lastOp.inFlight /\ ~lastOp.stale
       => lastOp.carried \subseteq lastOp.changed
  /\ lastOp.kind = "request" /\ ~lastOp.inFlight
       => pc[lastOp.caller] = "calling" /\ calls[lastOp.caller] = 1
  /\ \A c \in Callers : \A w \in Range(waiters[c]) : DeviceOf(w) = DeviceOf(c)

\* a set request for one device started its remote call while the call of
\* a command for the other device was unanswered
C27_Witness ==
  /\ lastOp.kind = "request" /\ pc[lastOp.caller] = "calling"
  /\ \E c \in Callers :
       /\ pc[c] = "calling"
       /\ DeviceOf(c) \in Devices \ {lastOp.dev}

\* ------------------------------------------------------------------------
\* Platform lifecycle
\* ------------------------------------------------------------------------
\* C28: once cleanup has completed no poll timer is active (so that no
\* poll cycle starts) and no webhook listener is bound.
C28_NothingAfterCleanup == Cleaned => sched.timers = {} /\ ~wh.server

\* C29: when listWebhooks or createWebhook fails during start, start()
\* returns normally with the listener bound, webhookId stays absent, and the
\* polling timer that startPolling created is still active.
C29_RegistrationFailureAbsorbed ==
  lastOp.kind = "registered" /\ lastOp.failed =>
    /\ wh.op = "none" /\ wh.pc = "idle"
    /\ wh.webhookId = 0
    /\ Listening
    /\ sched.pollingInterval # NoTimer
    /\ sched.pollingInterval \in sched.timers

\* createWebhook failed after the sweep had deleted the subscription of an
\* earlier run; polling goes on
C29_Witness ==
  /\ lastOp.kind = "registered" /\ lastOp.failed
  /\ Matching(wh.before, wh.url) # {} /\ Matching(remote.subs, wh.url) = {}
  /\ sched.timers # {} /\ ~sched.cleaned

C31_FallbackKeepsEntry ==
  [][\A d \in Devices :
       LET entry == acc[d].batteryCache
           valid == now - entry.lastUpdated < CacheTimeout
       IN /\ lastOp'.kind = "batteryFallback" /\ lastOp'.dev = d =>
               /\ lastOp'.returned = {<<lastOp'.caller, entry.level>>}
               /\ acc'[d].batteryCache = entry
               /\ acc'[d].batteryLevel = entry.level
               /\ pc'[lastOp'.caller] = "idle"
          /\ lastOp'.kind = "batteryRead" /\ lastOp'.dev = d /\ ~valid =>
               /\ lastOp'.calls = 1
               /\ pc'[lastOp'.caller] = "fetching"
               /\ acc'[d].batteryCache = entry]_vars

\* a read fell back to an expired entry that an earlier refresh had written
C31_Witness ==
  /\ lastOp.kind = "batteryFallback"
  /\ lastOp.returned = {<<lastOp.caller, 15>>}
  /\ acc[lastOp.dev].batteryCache.lastUpdated = 1
  /\ now - acc[lastOp.dev].batteryCache.lastUpdated >= CacheTimeout

\* ------------------------------------------------------------------------
\* Event types of the subscription
\* ------------------------------------------------------------------------
\* C32: every subscription the plugin created holds the six base event
\* types, and holds device.door_opened and device.door_closed exactly when
\* some configured device supports a door sensor.
C32_DoorEventsIffSensor ==
  \A s \in remote.subs :
    s.id > Cardinality(ResidualSubs) =>
      /\ {"device.connected", "device.disconnected", "lock.locked",
          "lock.unlocked", "device.low_battery",
          "device.battery_status_changed"} \subseteq s.events
      /\ "device.door_opened" \in s.events
           <=> \E d \in Devices : acc[d].supportsDoorSensor
      /\ "device.door_closed" \in s.events
           <=> \E d \in Devices : acc[d].supportsDoorSensor

\* a subscription created with the door events, for a device with a sensor
C32_Witness ==
  /\ lastOp.kind = "registered" /\ ~lastOp.failed /\ ~lastOp.adopted
  /\ acc[DeviceUnderTest].supportsDoorSensor
  /\ \E s \in remote.subs :
       s.id = wh.webhookId /\ "device.door_opened" \in s.events

\* C33: when createWebhook is rejected for an unsupported event type, the
\* registration goes on with a second createWebhook (the retry with the base
\* event types) instead of ending there.
C33_RetriedWithBaseEvents ==
  lastOp.error = "Invalid event types" => wh.op = "start" /\ wh.pc = "create"

\* C34: once discoverDevices has returned for a configuration with webhooks
\* disabled and a base URL, no subscription whose URL starts with the base
\* URL is left at the remote API.
C34_SweptWhenDisabled ==
  sched.started /\ wh.op = "none" /\ ~wh.enabled /\ wh.url # NoUrl =>
    Matching(remote.subs, wh.url) = {}

\* ------------------------------------------------------------------------
\* Status reads
\* ------------------------------------------------------------------------
\* C35: the battery_level a status read reports is round(raw x 100) for a
\* raw level <= 1, 0 included, the raw level itself for 2..100, and 100 only
\* when the response carries no level (raw levels in thousandths).
C35_BatteryNormalised ==
  lastOp.kind = "stateAnswer" =>
    /\ lastOp.reported \in 0..100
    /\ lastOp.reported =
         IF lastOp.raw = Undefined THEN 100
         ELSE IF lastOp.raw <= 1000 THEN (lastOp.raw + 5) \div 10
         ELSE lastOp.raw \div 1000

\* C38: a lock-state read that completes while a command of the device is
\* in flight does not change locked.
C38_ReadDuringCommand ==
  lastOp.kind = "stateAnswer" /\ lastOp.inFlight => "locked" \notin lastOp.changed

\* ------------------------------------------------------------------------
\* Commands against reads, polls and each other
\* ------------------------------------------------------------------------
\* C36: isCommandInProgress of a device is true whenever a remote
\* lock/unlock call for it is outstanding or a settle pause of it is running,
\* whatever the number of concurrent requests.
C36_FlagCoversCommands ==
  \A d \in Devices : Outstanding(d) # {} => acc[d].isCommandInProgress

\* C37: when the answer of a status query that was sent before a command
\* succeeded is applied after the command released the device, locked keeps
\* the value the command set. In SpecStale the query precedes every set
\* request and a new accessory is locked, so an unlocked accessory with no
\* command in progress holds the result of a successful unlock command.
C37_StalePollKeepsResult ==
  [][(/\ lastOp'.kind = "pollAnswer" /\ lastOp'.dev = DeviceUnderTest
      /\ ~acc[DeviceUnderTest].isLocked
      /\ ~acc[DeviceUnderTest].isCommandInProgress)
       => ~acc'[DeviceUnderTest].isLocked]_vars

\* C39: an update that is rejected does not advance lastEventTime: a poll
\* or webhook that carries locked and meets a command in flight, and a door
\* event for a device without door sensor. (An event for an unknown device
\* id reaches no accessory.)
C39_RejectedKeepsWatermark ==
  /\ IsUpdate /\ lastOp.inFlight /\ "locked" \in lastOp.carried
       => "lastEventTime" \notin lastOp.changed
  /\ lastOp.kind = "webhook" /\ lastOp.event \in DoorEvents
       /\ ~acc[lastOp.dev].supportsDoorSensor
       => "lastEventTime" \notin lastOp.changed

\* ------------------------------------------------------------------------
\* Stop beside start
\* ------------------------------------------------------------------------
\* C40: when stop() ran while start() was registering the webhook and both
\* have completed (every remote call answered), no subscription whose URL
\* starts with the base URL remains, webhookId is absent, and the saved path
\* and secret are empty.
C40_StopWinsRace ==
  wh.stopping = "done" /\ wh.op = "none" /\ wh.clean =>
    /\ Matching(remote.subs, wh.url) = {}
    /\ wh.webhookId = 0
    /\ wh.cfgPath = NoValue /\ wh.cfgSecret = NoValue

====
